---- MODULE Spec2Model ----
(***************************************************************************)
(* Model of the command execution and configuration framework of          *)
(* kafka_cli: the profile/config store (core/config_manager.py), the      *)
(* error handler (core/errors.py), the prompt strategies                  *)
(* (core/interactive.py) and the command result type                      *)
(* (core/commands/base.py).                                               *)
(***************************************************************************)
EXTENDS Integers, Sequences, FiniteSets, TLC

VARIABLES
    files,          \* <config_dir>/profiles/<name>.yaml : name -> file text
    configFile,     \* <config_dir>/config.yaml
    _config,        \* ConfigManager._config of the running process
    _error_counts,  \* ErrorHandler._error_counts
    _observers,     \* ErrorHandler._observers
    notified,       \* the observers called by the latest operation of the error
                    \* handler (register and unregister call none), in call order
    exited,         \* exit status the process ended with, NoExit while it runs
    prompt,         \* the PromptStrategy.prompt call in progress (blocked in input())
    cmd,            \* the Command.execute call in progress
    last,           \* the latest call: operation, arguments and what it returned
    _instances      \* the singletons of the process: Singleton._instances and
                    \* ErrorHandler._instance, and the number of objects made

vars == <<files, configFile, _config, _error_counts, _observers, notified, exited,
          prompt, cmd, last, _instances>>

(***************************************************************************)
(* Bounds                                                                  *)
(***************************************************************************)
MaxCount == 1       \* reports counted per severity within one process
MaxObservers == 2   \* length of one severity's observer list
MaxHandled == 2     \* handle() calls within one process
MaxInstances == 2   \* ConfigManager objects made within one process
MaxAddons == 1      \* add-ons enabled in one profile

(***************************************************************************)
(* Python values.  A value is a record [t, s, d]: t is the type, s the     *)
(* text of a scalar, d the entries of a dict (one level of nesting).       *)
(***************************************************************************)
NoEntries == [k \in {} |-> [t |-> "none", s |-> ""]]

PyNone == [t |-> "none", s |-> "", d |-> NoEntries]
PyStr(x) == [t |-> "str", s |-> x, d |-> NoEntries]
PyInt(x) == [t |-> "int", s |-> x, d |-> NoEntries]
PyBool(x) == [t |-> "bool", s |-> x, d |-> NoEntries]
PyDict(entries) == [t |-> "dict", s |-> "", d |-> entries]
Leaf(t, s) == [t |-> t, s |-> s]

EmptyDoc == [k \in {} |-> PyNone]

(***************************************************************************)
(* YAML text.  A file is [kind, body]; a block mapping has one line per    *)
(* key, each line holding a scalar node [style, text] or a nested mapping. *)
(***************************************************************************)
NullTexts == {"null", "~", ""}
BoolTexts == {"true", "false"}
IntTexts == {"3", "100", "10", "20", "3000", "8080", "8081", "8083", "8088", "9090"}

NoLines == [k \in {} |-> [style |-> "plain", text |-> "", sub |-> NoEntries]]

Absent == [kind |-> "absent", body |-> NoLines]
EmptyFile == [kind |-> "empty", body |-> NoLines]
Garbage == [kind |-> "garbage", body |-> NoLines]

\* the implicit tag PyYAML resolves a plain scalar to
resolve(text) ==
    IF text \in NullTexts THEN "none"
    ELSE IF text \in BoolTexts THEN "bool"
    ELSE IF text \in IntTexts THEN "int"
    ELSE "str"

\* mutant of represent_scalar: a string is never quoted
represent_scalar_plain(v) ==
    IF v.t = "list" THEN [style |-> "seq", text |-> v.s]
    ELSE IF v.t = "none" THEN [style |-> "plain", text |-> "null"]
    ELSE [style |-> "plain", text |-> v.s]

\* yaml.dump of a scalar: a string that would resolve to another type is
\* quoted; a list of strings (its text: the strings, separated by blanks) is
\* written as a sequence
represent_scalar(v) ==
    IF v.t = "list" THEN [style |-> "seq", text |-> v.s]
    ELSE IF v.t = "none" THEN [style |-> "plain", text |-> "null"]
    ELSE IF v.t = "str" /\ resolve(v.s) # "str" THEN [style |-> "quoted", text |-> v.s]
    ELSE [style |-> "plain", text |-> v.s]

\* yaml.safe_load of a scalar node
construct_scalar(n) ==
    IF n.style = "seq" THEN Leaf("list", n.text)
    ELSE IF n.style = "quoted" THEN Leaf("str", n.text)
    ELSE IF resolve(n.text) = "none" THEN Leaf("none", "")
    ELSE Leaf(resolve(n.text), n.text)

represent_value(v) ==
    IF v.t = "dict"
    THEN [style |-> IF DOMAIN v.d = {} THEN "flow" ELSE "block", text |-> "",
          sub |-> [k \in DOMAIN v.d |-> represent_scalar(v.d[k])]]
    ELSE LET n == represent_scalar(v) IN [style |-> n.style, text |-> n.text, sub |-> NoEntries]

construct_value(n) ==
    IF n.style \in {"flow", "block"}
    THEN PyDict([k \in DOMAIN n.sub |-> construct_scalar(n.sub[k])])
    ELSE LET v == construct_scalar(n) IN [t |-> v.t, s |-> v.s, d |-> NoEntries]

\* yaml.dump(document, f, default_flow_style=False)
yaml_dump(doc) ==
    IF DOMAIN doc = {} THEN [kind |-> "flow", body |-> NoLines]
    ELSE [kind |-> "block", body |-> [k \in DOMAIN doc |-> represent_value(doc[k])]]

\* yaml.safe_load(f): [raises, none, doc]
yaml_safe_load(text) ==
    IF text.kind = "garbage" THEN [raises |-> TRUE, none |-> FALSE, doc |-> EmptyDoc]
    ELSE IF text.kind = "empty" THEN [raises |-> FALSE, none |-> TRUE, doc |-> EmptyDoc]
    ELSE [raises |-> FALSE, none |-> FALSE,
          doc |-> [k \in DOMAIN text.body |-> construct_value(text.body[k])]]

(***************************************************************************)
(* The values the operations are called with                               *)
(***************************************************************************)
Names == {"a", "b"}
Severities == {"INFO", "WARNING", "ERROR", "CRITICAL"}
Callbacks == {"cb1", "cb2"}
NoExit == -1      \* the process is running / no typer.Exit was raised
NoCode == -1      \* exit_code is None

\* no ConfigManager in Singleton._instances, ErrorHandler._instance is None;
\* an object is named by its number among the objects of its class made in
\* the process, made counts them
NoInstance == 0
NoInstances ==
    [ConfigManager |-> NoInstance, ErrorHandler |-> NoInstance,
     made |-> [ConfigManager |-> 0, ErrorHandler |-> 0]]

NameArgs == {PyNone} \cup {PyStr(n) : n \in Names}

Docs ==
    { EmptyDoc,
      [k \in {"profile", "note"} |->
          IF k = "profile"
          THEN PyDict([j \in {"name", "cloud"} |->
                  IF j = "name" THEN Leaf("str", "3") ELSE Leaf("str", "gcp")])
          ELSE PyStr("null")] }

\* the document init_config_dir writes when config.yaml does not exist
DefaultConfig ==
    [k \in {"version", "default_profile", "gcp", "terraform"} |->
        CASE k = "version" -> PyStr("1.0.0")
          [] k = "default_profile" -> PyNone
          [] k = "gcp" -> PyDict([j \in {"project_id", "region", "zone"} |->
                CASE j = "project_id" -> Leaf("none", "")
                  [] j = "region" -> Leaf("str", "us-central1")
                  [] j = "zone" -> Leaf("str", "us-central1-a")])
          [] k = "terraform" -> PyDict([j \in {"log_level", "auto_approve"} |->
                IF j = "log_level" THEN Leaf("str", "INFO") ELSE Leaf("bool", "false")])]

Updates ==
    { [k \in {"default_profile"} |-> PyStr("a")],
      [k \in {"other"} |-> PyStr("y")],
      [k \in {"gcp"} |-> PyDict([j \in {"region"} |-> Leaf("str", "x")])] }

NoneOut == [isNone |-> TRUE, doc |-> EmptyDoc]
SomeOut(doc) == [isNone |-> FALSE, doc |-> doc]

\* a call of a store method: its arguments (name, doc), what it returned (ret,
\* out, names) and dflt, the default profile at the time of the call
Call(op, name, doc, ret, out, names, dflt) ==
    [op |-> op, name |-> name, doc |-> doc, ret |-> ret, out |-> out, names |-> names,
     dflt |-> dflt]

(***************************************************************************)
(* ConfigManager (core/config_manager.py).  Each operator takes the state  *)
(* it reads and returns what the method returns, the state it leaves, and  *)
(* errs, the number of ConfigurationErrors it passes to the error handler. *)
(***************************************************************************)
profile_exists(fs, n) == fs[n].kind # "absent"

load_config(cf) ==
    LET r == yaml_safe_load(cf) IN
    IF cf.kind = "absent" \/ r.raises
    THEN [cfg |-> EmptyDoc, errs |-> 1]
    ELSE [cfg |-> IF r.none \/ DOMAIN r.doc = {} THEN EmptyDoc ELSE r.doc, errs |-> 0]

get_config(cfg, cf) ==
    IF DOMAIN cfg = {} THEN load_config(cf) ELSE [cfg |-> cfg, errs |-> 0]

save_config(cfg, cf, ioOk) ==
    IF ioOk
    THEN [file |-> yaml_dump(cfg), ret |-> TRUE, errs |-> 0]
    ELSE [file |-> cf, ret |-> FALSE, errs |-> 1]

dict_update(cfg, updates) ==
    [k \in DOMAIN cfg \cup DOMAIN updates |-> IF k \in DOMAIN updates THEN updates[k] ELSE cfg[k]]

update_config(cfg, cf, updates, ioOk) ==
    LET merged == dict_update(cfg, updates)
        s == save_config(merged, cf, ioOk)
    IN  [cfg |-> merged, file |-> s.file, ret |-> s.ret, errs |-> s.errs]

get_default_profile(cfg, cf) ==
    LET g == get_config(cfg, cf) IN
    [val |-> IF "default_profile" \in DOMAIN g.cfg THEN g.cfg["default_profile"] ELSE PyNone,
     cfg |-> g.cfg, errs |-> g.errs]

set_default_profile(cfg, cf, name, ioOk) ==
    update_config(cfg, cf, [k \in {"default_profile"} |-> name], ioOk)

\* get_profile_path, relative to the profiles directory
get_profile_path(profile_name) == profile_name \o ".yaml"

\* the entry of the profiles directory a path is, or lies under (save_profile
\* makes the directories of the path)
dir_entry(path) ==
    LET seps == {i \in 1..Len(path) : SubSeq(path, i, i) = "/"} IN
    IF seps = {} THEN path
    ELSE SubSeq(path, 1, (CHOOSE i \in seps : \A j \in seps : i <= j) - 1)

endswith(f, suffix) ==
    Len(f) >= Len(suffix) /\ SubSeq(f, Len(f) - Len(suffix) + 1, Len(f)) = suffix

\* os.listdir(profiles_dir), as a set
profiles_dir_entries(fs) ==
    {dir_entry(get_profile_path(n)) : n \in {m \in DOMAIN fs : fs[m].kind # "absent"}}

\* [f[:-5] for f in os.listdir(profiles_dir) if f.endswith(".yaml")], as a set
list_profiles(fs) ==
    {SubSeq(f, 1, Len(f) - 5) : f \in {e \in profiles_dir_entries(fs) : endswith(e, ".yaml")}}

\* mutant of load_profile: a missing default profile is reported as an error
load_profile_reports_unset(fs, cfg, cf, name) ==
    LET d == get_default_profile(cfg, cf)
        resolved == IF name.t = "none" THEN d.val ELSE name
        cfg1 == IF name.t = "none" THEN d.cfg ELSE cfg
        errs1 == IF name.t = "none" THEN d.errs ELSE 0
    IN  IF resolved.t = "none" THEN [out |-> NoneOut, cfg |-> cfg1, errs |-> errs1 + 1]
        ELSE IF ~profile_exists(fs, resolved.s) THEN [out |-> NoneOut, cfg |-> cfg1, errs |-> errs1]
        ELSE LET r == yaml_safe_load(fs[resolved.s]) IN
             IF r.raises THEN [out |-> NoneOut, cfg |-> cfg1, errs |-> errs1 + 1]
             ELSE [out |-> SomeOut(IF r.none \/ DOMAIN r.doc = {} THEN EmptyDoc ELSE r.doc),
                   cfg |-> cfg1, errs |-> errs1]

load_profile(fs, cfg, cf, name) ==
    LET d == get_default_profile(cfg, cf)
        resolved == IF name.t = "none" THEN d.val ELSE name
        cfg1 == IF name.t = "none" THEN d.cfg ELSE cfg
        errs1 == IF name.t = "none" THEN d.errs ELSE 0
    IN  IF resolved.t = "none" THEN [out |-> NoneOut, cfg |-> cfg1, errs |-> errs1]
        ELSE IF ~profile_exists(fs, resolved.s) THEN [out |-> NoneOut, cfg |-> cfg1, errs |-> errs1]
        ELSE LET r == yaml_safe_load(fs[resolved.s]) IN
             IF r.raises THEN [out |-> NoneOut, cfg |-> cfg1, errs |-> errs1 + 1]
             ELSE [out |-> SomeOut(IF r.none \/ DOMAIN r.doc = {} THEN EmptyDoc ELSE r.doc),
                   cfg |-> cfg1, errs |-> errs1]

\* mutant of save_profile: a missing default profile is not reported
save_profile_silent(fs, cfg, cf, doc, name, ioOk) ==
    LET d == get_default_profile(cfg, cf)
        resolved == IF name.t = "none" THEN d.val ELSE name
        cfg1 == IF name.t = "none" THEN d.cfg ELSE cfg
        errs1 == IF name.t = "none" THEN d.errs ELSE 0
    IN  IF resolved.t = "none" THEN [ret |-> FALSE, fs |-> fs, cfg |-> cfg1, errs |-> errs1]
        ELSE IF ~ioOk THEN [ret |-> FALSE, fs |-> fs, cfg |-> cfg1, errs |-> errs1 + 1]
        ELSE [ret |-> TRUE, fs |-> [fs EXCEPT ![resolved.s] = yaml_dump(doc)],
              cfg |-> cfg1, errs |-> errs1]

save_profile(fs, cfg, cf, doc, name, ioOk) ==
    LET d == get_default_profile(cfg, cf)
        resolved == IF name.t = "none" THEN d.val ELSE name
        cfg1 == IF name.t = "none" THEN d.cfg ELSE cfg
        errs1 == IF name.t = "none" THEN d.errs ELSE 0
    IN  IF resolved.t = "none" THEN [ret |-> FALSE, fs |-> fs, cfg |-> cfg1, errs |-> errs1 + 1]
        ELSE IF ~ioOk THEN [ret |-> FALSE, fs |-> fs, cfg |-> cfg1, errs |-> errs1 + 1]
        ELSE [ret |-> TRUE, fs |-> [fs EXCEPT ![resolved.s] = yaml_dump(doc)],
              cfg |-> cfg1, errs |-> errs1]

\* mutant of delete_profile: os.remove is skipped
delete_profile_keeps_file(fs, cfg, cf, n, ioRemove, ioSave) ==
    IF ~profile_exists(fs, n)
    THEN [ret |-> FALSE, fs |-> fs, cfg |-> cfg, file |-> cf, errs |-> 0]
    ELSE LET d == get_default_profile(cfg, cf)
             u == set_default_profile(d.cfg, cf, PyNone, ioSave)
         IN  IF d.val = PyStr(n)
             THEN [ret |-> TRUE, fs |-> fs, cfg |-> u.cfg, file |-> u.file, errs |-> d.errs + u.errs]
             ELSE [ret |-> TRUE, fs |-> fs, cfg |-> d.cfg, file |-> cf, errs |-> d.errs]

\* mutant of delete_profile: the default profile is not looked at
delete_profile_keeps_default(fs, cfg, cf, n, ioRemove, ioSave) ==
    IF ~profile_exists(fs, n)
    THEN [ret |-> FALSE, fs |-> fs, cfg |-> cfg, file |-> cf, errs |-> 0]
    ELSE IF ~ioRemove
    THEN [ret |-> FALSE, fs |-> fs, cfg |-> cfg, file |-> cf, errs |-> 1]
    ELSE [ret |-> TRUE, fs |-> [fs EXCEPT ![n] = Absent], cfg |-> cfg, file |-> cf, errs |-> 0]

delete_profile(fs, cfg, cf, n, ioRemove, ioSave) ==
    IF ~profile_exists(fs, n)
    THEN [ret |-> FALSE, fs |-> fs, cfg |-> cfg, file |-> cf, errs |-> 0]
    ELSE IF ~ioRemove
    THEN [ret |-> FALSE, fs |-> fs, cfg |-> cfg, file |-> cf, errs |-> 1]
    ELSE LET d == get_default_profile(cfg, cf)
             u == set_default_profile(d.cfg, cf, PyNone, ioSave)
         IN  IF d.val = PyStr(n)
             THEN [ret |-> TRUE, fs |-> [fs EXCEPT ![n] = Absent], cfg |-> u.cfg,
                   file |-> u.file, errs |-> d.errs + u.errs]
             ELSE [ret |-> TRUE, fs |-> [fs EXCEPT ![n] = Absent], cfg |-> d.cfg,
                   file |-> cf, errs |-> d.errs]

(***************************************************************************)
(* Error taxonomy and ErrorHandler (core/errors.py)                        *)
(***************************************************************************)
KafkaCliError(kind, severity, exit_code) ==
    [kind |-> kind, severity |-> severity, exit_code |-> exit_code]

\* ConfigurationError(message, help_text=...): severity ERROR, no exit code
ConfigurationError == KafkaCliError("Configuration", "ERROR", NoCode)

NoObservers == [sev \in Severities |-> <<>>]
NoCounts == [sev \in Severities |-> 0]

Sum(counts) == counts["INFO"] + counts["WARNING"] + counts["ERROR"] + counts["CRITICAL"]

\* mutant of register: the observer is put at the head of the list
register_prepends(obs, observer, severity) ==
    IF severity # "None"
    THEN [obs EXCEPT ![severity] = <<observer>> \o @]
    ELSE [sev \in Severities |-> <<observer>> \o obs[sev]]

\* register(observer, severity): severity "None" registers for all severities
register(obs, observer, severity) ==
    IF severity # "None"
    THEN [obs EXCEPT ![severity] = Append(@, observer)]
    ELSE [sev \in Severities |-> Append(obs[sev], observer)]

\* list.remove(x): removes the first occurrence
RECURSIVE list_remove(_, _)
list_remove(list, x) ==
    IF list = <<>> THEN <<>>
    ELSE IF Head(list) = x THEN Tail(list)
    ELSE <<Head(list)>> \o list_remove(Tail(list), x)

InList(list, x) == \E i \in 1..Len(list) : list[i] = x

\* mutant of unregister: every registration of the observer is removed
unregister_every(obs, observer, severity) ==
    [sev \in Severities |->
        IF severity \in {"None", sev}
        THEN SelectSeq(obs[sev], LAMBDA o : o # observer)
        ELSE obs[sev]]

unregister(obs, observer, severity) ==
    IF severity # "None"
    THEN IF InList(obs[severity], observer)
         THEN [obs EXCEPT ![severity] = list_remove(@, observer)]
         ELSE obs
    ELSE [sev \in Severities |->
            IF InList(obs[sev], observer) THEN list_remove(obs[sev], observer) ELSE obs[sev]]

\* handle(error), first statement: self._error_counts[error.severity] += 1
handle_counts(counts, error) == [counts EXCEPT ![error.severity] = @ + 1]

\* mutant of handle_notify: the loop stops after the first observer
handle_notify_first(obs, error) ==
    IF obs[error.severity] = <<>> THEN <<>> ELSE <<Head(obs[error.severity])>>

\* handle(error), the loop: the observers called, in call order
handle_notify(obs, error) == obs[error.severity]

\* mutant of _handle_error: the exit code is tested for truth, not for None
_handle_error_truthy(error) ==
    IF error.exit_code # NoCode /\ error.exit_code # 0 THEN error.exit_code ELSE NoExit

\* _handle_error: typer.Exit(code=exit_code) only if an exit code is given
_handle_error(error) == IF error.exit_code # NoCode THEN error.exit_code ELSE NoExit

\* _handle_critical: always typer.Exit, with exit_code or 1
_handle_critical(error) == IF error.exit_code # NoCode THEN error.exit_code ELSE 1

\* handle(error), the dispatch on severity: the status of the typer.Exit raised
handle_exit(error) ==
    IF error.severity = "INFO" THEN NoExit
    ELSE IF error.severity = "WARNING" THEN NoExit
    ELSE IF error.severity = "ERROR" THEN _handle_error(error)
    ELSE _handle_critical(error)

\* the events of one observer list, in call order
notify_events(list) == [i \in 1..Len(list) |-> [ev |-> "notify", observer |-> list[i]]]

\* the events of the dispatch on severity: the panel printed, then typer.Exit
policy_events(error) ==
    <<[ev |-> "present", severity |-> error.severity]>>
    \o (IF handle_exit(error) # NoExit THEN <<[ev |-> "exit", code |-> handle_exit(error)]>> ELSE <<>>)

\* mutant of handle_events: the dispatch on severity runs first, and the
\* statements after a typer.Exit do not run
handle_events_policy_first(obs, error) ==
    policy_events(error)
    \o (IF handle_exit(error) # NoExit THEN <<>>
        ELSE <<[ev |-> "count", severity |-> error.severity]>> \o notify_events(obs[error.severity]))

\* handle(error): its statements in execution order
handle_events(obs, error) ==
    <<[ev |-> "count", severity |-> error.severity]>>
    \o notify_events(handle_notify(obs, error))
    \o policy_events(error)

\* no exception was passed to the handler
NoError == [kind |-> "none"]

\* CommandError(message) and ValidationError(message): severity ERROR, no
\* exit code
CommandError == KafkaCliError("Command", "ERROR", NoCode)
ValidationError == KafkaCliError("Validation", "ERROR", NoCode)

\* the subclasses of KafkaCliError; an exception of another class is a record
\* [kind |-> its class name]
TaxonomyKinds ==
    {"Configuration", "Authentication", "Validation", "Network", "Resource", "Command"}
Exceptions == {[kind |-> "AttributeError"], [kind |-> "Exit"]}

\* mutant of handle_exception: every exception is wrapped
handle_exception_wraps_all(exc) == CommandError

\* handle_exception(exc): a KafkaCliError is handled as it is, any other
\* exception as a CommandError of severity ERROR
handle_exception(exc) == IF exc.kind \in TaxonomyKinds THEN exc ELSE CommandError

\* ValidationError.__init__: the details of a ValidationError made with field
\* (NoField: field is None, the default); no other key is put in details by
\* the callers modelled here
NoField == "<None>"
ValidationErrorDetails(field) ==
    IF field # NoField /\ field # "" THEN {<<"field", field>>} ELSE {}

\* the details of the error handle_exception passes to handle, as a set of
\* <<key, value>>: those of exc (none in the errors made here), or the class
\* name of the exception wrapped
handle_exception_details(exc) ==
    IF exc.kind \in TaxonomyKinds THEN {} ELSE {<<"exception_type", exc.kind>>}

RECURSIVE handle_n(_, _, _)
handle_n(counts, error, n) ==
    IF n = 0 THEN counts ELSE handle_n(handle_counts(counts, error), error, n - 1)

(***************************************************************************)
(* The store's operations as steps of the process                          *)
(***************************************************************************)
NoPrompt == [status |-> "idle"]
NoCommand == [pc |-> "idle"]

\* the process runs and is not inside a prompt or a command
Running == exited = NoExit /\ prompt.status = "idle" /\ cmd.pc = "idle"

\* the state a ConfigManager method leaves, after errs ConfigurationErrors; a
\* call that reports errors is taken while fewer than MaxCount are counted
Store(fs, cf, cfg, errs, call) ==
    /\ Running
    /\ (errs = 0 \/ Sum(_error_counts) < MaxCount)
    /\ files' = fs
    /\ configFile' = cf
    /\ _config' = cfg
    /\ _error_counts' = handle_n(_error_counts, ConfigurationError, errs)
    /\ notified' = IF errs > 0 THEN handle_notify(_observers, ConfigurationError) ELSE notified
    /\ exited' = IF errs > 0 THEN handle_exit(ConfigurationError) ELSE exited
    /\ last' = call
    /\ UNCHANGED <<_instances, _observers, prompt, cmd>>

\* what get_default_profile() returns in the current state
Default == get_default_profile(_config, configFile).val

LoadProfile ==
    \E name \in NameArgs :
        LET r == load_profile(files, _config, configFile, name) IN
        Store(files, configFile, r.cfg, r.errs,
              Call("load_profile", name, EmptyDoc, ~r.out.isNone, r.out, {}, Default))

\* files holds an entry, Absent or not, for every name the calls are made with
SaveProfile ==
    \E doc \in Docs, name \in {PyNone} \cup {PyStr(n) : n \in DOMAIN files}, ioOk \in BOOLEAN :
        LET r == save_profile(files, _config, configFile, doc, name, ioOk) IN
        Store(r.fs, configFile, r.cfg, r.errs,
              Call("save_profile", name, doc, r.ret, NoneOut, {}, Default))

DeleteProfile ==
    \E n \in DOMAIN files, ioRemove \in BOOLEAN, ioSave \in BOOLEAN :
        LET r == delete_profile(files, _config, configFile, n, ioRemove, ioSave) IN
        Store(r.fs, r.file, r.cfg, r.errs,
              Call("delete_profile", PyStr(n), EmptyDoc, r.ret, NoneOut, {}, Default))

ListProfiles ==
    Store(files, configFile, _config, 0,
          Call("list_profiles", PyNone, EmptyDoc, TRUE, NoneOut, list_profiles(files), Default))

UpdateConfig ==
    \E updates \in Updates, ioOk \in BOOLEAN :
        LET r == update_config(_config, configFile, updates, ioOk) IN
        Store(files, r.file, r.cfg, r.errs,
              Call("update_config", PyNone, updates, r.ret, NoneOut, {}, Default))

SetDefaultProfile ==
    \E name \in NameArgs, ioOk \in BOOLEAN :
        LET r == set_default_profile(_config, configFile, name, ioOk) IN
        Store(files, r.file, r.cfg, r.errs,
              Call("set_default_profile", name, EmptyDoc, r.ret, NoneOut, {}, Default))

GetDefaultProfile ==
    LET r == get_default_profile(_config, configFile) IN
    Store(files, configFile, r.cfg, r.errs,
          Call("get_default_profile", r.val, EmptyDoc, TRUE, NoneOut, {}, Default))

\* a new process: main() runs utils.config.init_config_dir, which writes the
\* default config.yaml if there is none; the singletons start empty
Restart ==
    /\ files' = files
    /\ configFile' = IF configFile.kind = "absent" THEN yaml_dump(DefaultConfig) ELSE configFile
    /\ _config' = EmptyDoc
    /\ _error_counts' = NoCounts
    /\ _observers' = NoObservers
    /\ notified' = <<>>
    /\ exited' = NoExit
    /\ prompt' = NoPrompt
    /\ cmd' = NoCommand
    /\ last' = [op |-> "restart"]
    /\ _instances' = NoInstances

Init ==
    /\ files \in {[n \in Names |-> Absent], [n \in Names |-> IF n = "b" THEN Garbage ELSE Absent]}
    /\ configFile \in {Absent, yaml_dump(DefaultConfig)}
    /\ _config = EmptyDoc
    /\ _error_counts = NoCounts
    /\ _observers = NoObservers
    /\ notified = <<>>
    /\ exited = NoExit
    /\ prompt = NoPrompt
    /\ cmd = NoCommand
    /\ last = [op |-> "init"]
    /\ _instances = NoInstances

Next ==
    \/ LoadProfile
    \/ SaveProfile
    \/ DeleteProfile
    \/ ListProfiles
    \/ UpdateConfig
    \/ SetDefaultProfile
    \/ GetDefaultProfile
    \/ Restart

Spec == Init /\ [][Next]_vars

\* save_profile, delete_profile and list_profiles called with profile names
\* that are and are not plain file names
PathNames == {"a", "d/x"}

InitList ==
    /\ files = [n \in PathNames |-> Absent]
    /\ configFile = yaml_dump(DefaultConfig)
    /\ _config = EmptyDoc
    /\ _error_counts = NoCounts
    /\ _observers = NoObservers
    /\ notified = <<>>
    /\ exited = NoExit
    /\ prompt = NoPrompt
    /\ cmd = NoCommand
    /\ last = [op |-> "init"]
    /\ _instances = NoInstances

NextList ==
    \/ SaveProfile
    \/ DeleteProfile
    \/ ListProfiles
    \/ Restart

SpecList == InitList /\ [][NextList]_vars

(***************************************************************************)
(* Claims about the profile/config store                                   *)
(***************************************************************************)

\* C1: in every reachable store state, save_profile(D, P) with a name P that
\* returned true is followed by load_profile(P) returning a document equal to
\* D, the empty document included.
C1_SaveThenLoad ==
    (last.op = "save_profile" /\ last.ret /\ last.name.t # "none") =>
        load_profile(files, _config, configFile, last.name).out = SomeOut(last.doc)

C1_Witness ==
    /\ last.op = "save_profile" /\ last.ret /\ last.name = PyStr("a")
    /\ "note" \in DOMAIN last.doc
    /\ load_profile(files, _config, configFile, last.name).out = SomeOut(last.doc)

\* C2: after delete_profile(P) returned true, load_profile(P) returns None and
\* list_profiles() does not contain P; a name that is not stored stays so
\* until a save_profile to it; delete_profile(P) of a name that is not stored
\* returns false and changes nothing.
C2_DeleteThenAbsent ==
    [][ /\ (last'.op = "delete_profile" /\ last'.ret) =>
            /\ load_profile(files', _config', configFile', last'.name).out.isNone
            /\ last'.name.s \notin list_profiles(files')
        /\ (last'.op = "delete_profile" /\ ~profile_exists(files, last'.name.s)) =>
            /\ ~last'.ret
            /\ UNCHANGED <<files, configFile, _config, _error_counts, _observers>>
        /\ \A n \in Names :
            ( /\ ~profile_exists(files, n)
              /\ ~(last'.op = "save_profile" /\ last'.name \in {PyStr(n), PyNone}) ) =>
                /\ n \notin list_profiles(files')
                /\ load_profile(files', _config', configFile', PyStr(n)).out.isNone
      ]_vars

C2_Witness ==
    /\ last.op = "delete_profile" /\ last.ret
    /\ last.name.s \notin list_profiles(files)

\* C3: if P is the default profile and delete_profile(P) returns true,
\* get_default_profile() returns None afterwards; if the default is another
\* name, delete_profile(P) leaves get_default_profile() as it was.
C3_DeleteClearsDefault ==
    [][ last'.op = "delete_profile" =>
          LET before == get_default_profile(_config, configFile).val
              after == get_default_profile(_config', configFile').val
          IN  /\ (before = last'.name /\ last'.ret) => after = PyNone
              /\ before # last'.name => after = before
      ]_vars

C3_Witness ==
    /\ last.op = "delete_profile" /\ last.ret
    /\ last.dflt = last.name
    /\ Default = PyNone

\* C4: update_config(partial) that returned true leaves every top-level key of
\* partial with the given value in the persisted config, and every other
\* top-level key of the persisted config with its previous value, also when
\* it is the first store operation of the process.
C4_ShallowMerge ==
    [][ (last'.op = "update_config" /\ last'.ret) =>
          LET before == load_config(configFile).cfg
              after == load_config(configFile').cfg
          IN  /\ \A k \in DOMAIN last'.doc :
                    k \in DOMAIN after /\ after[k] = last'.doc[k]
              /\ \A k \in DOMAIN before \ DOMAIN last'.doc :
                    k \in DOMAIN after /\ after[k] = before[k]
      ]_vars

\* get_config() has a config to return without reporting an error: the one in
\* memory, or the one load_config() reads from config.yaml
ConfigLoadable == DOMAIN _config # {} \/ load_config(configFile).errs = 0

C21_ListIsSavedNotDeleted ==
    [][ /\ (last'.op = "save_profile" /\ last'.ret /\ last'.name.t = "str") =>
              /\ last'.name.s \in list_profiles(files')
              /\ \A n \in PathNames \ {last'.name.s} :
                    n \in list_profiles(files') <=> n \in list_profiles(files)
        /\ (last'.op = "delete_profile" /\ last'.ret) =>
              /\ last'.name.s \notin list_profiles(files')
              /\ \A n \in PathNames \ {last'.name.s} :
                    n \in list_profiles(files') <=> n \in list_profiles(files)
        /\ last'.op = "list_profiles" =>
              /\ last'.names = list_profiles(files)
              /\ (\A n \in PathNames : files[n] = Absent) => last'.names = {}
              /\ UNCHANGED <<files, _error_counts, notified, exited>>
      ]_vars


(***************************************************************************)
(* The error handler's operations as steps of the process                  *)
(***************************************************************************)
ExitCodes == {NoCode, 0, 2}
Errors == {KafkaCliError("Command", sev, code) : sev \in Severities, code \in ExitCodes}
RegSeverities == {"None", "ERROR"}

Register ==
    \E observer \in Callbacks, severity \in RegSeverities :
        /\ Running
        /\ \A sev \in Severities :
              (severity \in {"None", sev}) => Len(_observers[sev]) < MaxObservers
        /\ _observers' = register(_observers, observer, severity)
        /\ last' = [op |-> "register", observer |-> observer, severity |-> severity]
        /\ notified' = <<>>
        /\ UNCHANGED <<_instances, files, configFile, _config, _error_counts, exited, prompt, cmd>>

Unregister ==
    \E observer \in Callbacks, severity \in RegSeverities :
        /\ Running
        /\ _observers' = unregister(_observers, observer, severity)
        /\ last' = [op |-> "unregister", observer |-> observer, severity |-> severity]
        /\ notified' = <<>>
        /\ UNCHANGED <<_instances, files, configFile, _config, _error_counts, exited, prompt, cmd>>

Handle ==
    \E error \in Errors :
        /\ Running
        /\ Sum(_error_counts) < MaxHandled
        /\ _error_counts' = handle_counts(_error_counts, error)
        /\ notified' = handle_notify(_observers, error)
        /\ exited' = handle_exit(error)
        /\ last' = [op |-> "handle", error |-> error,
                    events |-> handle_events(_observers, error)]
        /\ UNCHANGED <<_instances, files, configFile, _config, _observers, prompt, cmd>>

HandleException ==
    \E exc \in Errors \cup Exceptions :
        LET err == handle_exception(exc) IN
        /\ Running
        /\ Sum(_error_counts) < MaxHandled
        /\ _error_counts' = handle_counts(_error_counts, err)
        /\ notified' = handle_notify(_observers, err)
        /\ exited' = handle_exit(err)
        /\ last' = [op |-> "handle_exception", exc |-> exc, error |-> err,
                    details |-> handle_exception_details(exc)]
        /\ UNCHANGED <<_instances, files, configFile, _config, _observers, prompt, cmd>>

\* CommandFactory (core/commands/base.py): the command types registered by
\* the decorators of profile_commands.py and addon_commands.py
_commands ==
    {"list_profiles", "create_profile", "delete_profile", "set_active_profile", "show_profile",
     "list_addons", "install_addon", "uninstall_addon", "configure_addon"}

CommandTypes == {"delete_profile", "purge_profile"}

\* what the constructor called by create does: it returns, or raises an
\* exception (a KafkaCliError, another Exception, or a KeyboardInterrupt)
Constructors ==
    {[kind |-> "returns"], [kind |-> "KeyboardInterrupt"]} \cup Errors \cup Exceptions

\* what create does: leave is how it ends ("return", or the exception that
\* leaves it), handled the error passed to handle (or NoError), constructed
\* whether the constructor was called
Created(leave, code, handled, constructed) ==
    [leave |-> leave, code |-> code, handled |-> handled, constructed |-> constructed]

\* mutant of create: the exception of the constructor is not reported
create_unreported(command_type, constructor) ==
    IF command_type \notin _commands THEN Created("ValueError: No command registered", NoExit, NoError, FALSE)
    ELSE IF constructor.kind = "returns" THEN Created("return", NoExit, NoError, TRUE)
    ELSE IF constructor.kind = "KeyboardInterrupt"
    THEN Created("KeyboardInterrupt", NoExit, NoError, TRUE)
    ELSE Created("ValueError: Failed to create command", NoExit, NoError, TRUE)

\* typer.Exit raised by handle inside the except block leaves create in place
\* of the ValueError
create(command_type, constructor) ==
    IF command_type \notin _commands THEN Created("ValueError: No command registered", NoExit, NoError, FALSE)
    ELSE IF constructor.kind = "returns" THEN Created("return", NoExit, NoError, TRUE)
    ELSE IF constructor.kind = "KeyboardInterrupt"
    THEN Created("KeyboardInterrupt", NoExit, NoError, TRUE)
    ELSE LET err == handle_exception(constructor) IN
         IF handle_exit(err) # NoExit
         THEN Created("Exit", handle_exit(err), err, TRUE)
         ELSE Created("ValueError: Failed to create command", NoExit, err, TRUE)

\* an unregistered command_type has no constructor to call
Create ==
    \E command_type \in CommandTypes :
      \E constructor \in IF command_type \in _commands THEN Constructors
                         ELSE {[kind |-> "returns"]} :
        LET r == create(command_type, constructor) IN
        /\ Running
        /\ Sum(_error_counts) < MaxHandled
        /\ _error_counts' = IF r.handled = NoError THEN _error_counts
                            ELSE handle_counts(_error_counts, r.handled)
        /\ notified' = IF r.handled = NoError THEN notified
                       ELSE handle_notify(_observers, r.handled)
        /\ exited' = IF r.leave = "Exit" THEN r.code ELSE exited
        /\ last' = [op |-> "create", command_type |-> command_type,
                    constructor |-> constructor, out |-> r]
        /\ UNCHANGED <<_instances, files, configFile, _config, _observers, prompt, cmd>>

InitHandler ==
    /\ files = [n \in Names |-> Absent]
    /\ configFile = yaml_dump(DefaultConfig)
    /\ _config = EmptyDoc
    /\ _error_counts = NoCounts
    /\ _observers = NoObservers
    /\ notified = <<>>
    /\ exited = NoExit
    /\ prompt = NoPrompt
    /\ cmd = NoCommand
    /\ last = [op |-> "init"]
    /\ _instances = NoInstances

NextHandler ==
    \/ Register
    \/ Unregister
    \/ Handle
    \/ HandleException
    \/ Create
    \/ Restart

SpecHandler == InitHandler /\ [][NextHandler]_vars

(***************************************************************************)
(* handle with subscribers that call the handler back.  What a subscriber  *)
(* does when it is invoked with an error: nothing to the handler, or       *)
(* register(observer, error.severity), or unregister(observer,             *)
(* error.severity).  A subscriber that registers one that registers again  *)
(* keeps the loop of handle running for ever, and is left out.             *)
(***************************************************************************)
ReentrantCalls ==
    {[call |-> "none", observer |-> "cb1"]}
        \cup [call : {"register", "unregister"}, observer : Callbacks]

Doings ==
    {does \in [Callbacks -> ReentrantCalls] :
        \A cb \in Callbacks :
            does[cb].call = "register" => does[does[cb].observer].call # "register"}

\* observer(error): the registry after the call
observer_call(obs, act, severity) ==
    CASE act.call = "register" -> register(obs, act.observer, severity)
      [] act.call = "unregister" -> unregister(obs, act.observer, severity)
      [] OTHER -> obs

\* for observer in self._observers[error.severity]: observer(error).  The
\* list iterator keeps an index into the list itself: each round it stops
\* when the index is past the end of the list as it is then, and takes the
\* entry at the index otherwise.
RECURSIVE notify_loop(_, _, _, _, _)
notify_loop(obs, severity, i, does, called) ==
    IF i > Len(obs[severity]) THEN [obs |-> obs, called |-> called]
    ELSE LET observer == obs[severity][i] IN
         notify_loop(observer_call(obs, does[observer], severity), severity, i + 1, does,
                     Append(called, observer))

HandleLoop(r, error, does) ==
    /\ Running
    /\ Sum(_error_counts) < MaxHandled
    /\ \A sev \in Severities : Len(r.obs[sev]) <= MaxObservers
    /\ _error_counts' = handle_counts(_error_counts, error)
    /\ _observers' = r.obs
    /\ notified' = r.called
    /\ exited' = handle_exit(error)
    /\ last' = [op |-> "handle", error |-> error, does |-> does]
    /\ UNCHANGED <<_instances, files, configFile, _config, prompt, cmd>>

HandleReentrant ==
    \E error \in Errors, does \in Doings :
        HandleLoop(notify_loop(_observers, error.severity, 1, does, <<>>), error, does)

NextReentrant ==
    \/ Register
    \/ Unregister
    \/ HandleReentrant
    \/ Restart

SpecReentrant == InitHandler /\ [][NextReentrant]_vars

(***************************************************************************)
(* Claims about the error handler                                          *)
(***************************************************************************)
Count(list, x) == Cardinality({i \in 1..Len(list) : list[i] = x})

CountsStep(error) ==
    /\ _error_counts'[error.severity] = _error_counts[error.severity] + 1
    /\ \A sev \in Severities \ {error.severity} : _error_counts'[sev] = _error_counts[sev]

\* C5 as stated: handle(e) adds exactly one to the counter of e.severity,
\* leaves the other three counters as they were, and calls every callback
\* registered for that severity or for all severities exactly once, whatever
\* register/unregister calls built the registry.
C5_HandleOnceEach ==
    [][ last'.op = "handle" =>
          /\ CountsStep(last'.error)
          /\ \A cb \in Callbacks :
                Count(notified', cb) = IF InList(_observers[last'.error.severity], cb) THEN 1 ELSE 0
      ]_vars

\* C5 amended: handle(e) adds exactly one to the counter of e.severity,
\* leaves the other three counters as they were, and calls every callback
\* once for each registration it holds for that severity (a registration for
\* all severities counting as one for each severity); so exactly once when
\* the callback was registered once, and never when it holds none.
C5_HandleOncePerRegistration ==
    [][ last'.op = "handle" =>
          /\ CountsStep(last'.error)
          /\ \A cb \in Callbacks :
                /\ Count(notified', cb) = Count(_observers[last'.error.severity], cb)
                /\ Count(_observers[last'.error.severity], cb) = 1 => Count(notified', cb) = 1
                /\ Count(notified', cb) > 0 => InList(_observers[last'.error.severity], cb)
      ]_vars

C5_Witness ==
    /\ last.op = "handle"
    /\ last.error.severity = "ERROR"
    /\ _error_counts["ERROR"] = 1
    /\ notified = <<"cb1", "cb2">>
    /\ _observers["WARNING"] = <<"cb2">>

\* the list without its entries equal to x
Without(list, x) == SelectSeq(list, LAMBDA o : o # x)

\* list with one entry taken out, or list itself
OneOut(list) == {list} \cup {SubSeq(list, 1, i - 1) \o SubSeq(list, i + 1, Len(list)) : i \in 1..Len(list)}

\* C24: handle(e) invokes the subscribers for e.severity in registration
\* order. Each severity's list is kept in registration order by every step:
\* register puts the new registration after all those the list holds, for the
\* one severity or for every severity, and leaves them in place; unregister
\* takes at most one entry of its observer out and leaves the relative order
\* of all other entries as it was (so register/unregister calls for other
\* callbacks never reorder two registrations); and handle(e) invokes the
\* entries of e.severity's list from first to last.
C24_RegistrationOrder ==
    [][ /\ last'.op = "register" =>
              \A sev \in Severities :
                 _observers'[sev] = IF last'.severity \in {"None", sev}
                                    THEN Append(_observers[sev], last'.observer)
                                    ELSE _observers[sev]
        /\ last'.op = "unregister" =>
              \A sev \in Severities :
                 /\ _observers'[sev] \in OneOut(_observers[sev])
                 /\ Without(_observers'[sev], last'.observer) = Without(_observers[sev], last'.observer)
        /\ last'.op = "handle" =>
              /\ notified' = _observers[last'.error.severity]
              /\ _observers' = _observers
      ]_vars

C24_Witness ==
    /\ last.op = "handle"
    /\ last.error.severity = "ERROR"
    /\ notified = <<"cb2", "cb1">>
    /\ _observers["INFO"] = <<"cb1">>

\* positions of the events of one kind
At(events, kinds) == {i \in 1..Len(events) : events[i].ev \in kinds}

\* C25: in handle(e) the counter increment and every subscriber notification
\* happen before the presentation policy is applied: the increment comes
\* once and first, then one notification for each entry of e.severity's list,
\* then the presentation, then the exit if there is one; so when handle ends
\* the process (CRITICAL, or ERROR with an exit code) the counter of
\* e.severity is already one higher and every subscriber for that severity
\* has been invoked.
C25_NotifyBeforePolicy ==
    [][ last'.op = "handle" =>
          LET events == last'.events
              sev == last'.error.severity IN
          /\ Cardinality(At(events, {"count"})) = 1
          /\ Cardinality(At(events, {"present"})) = 1
          /\ Cardinality(At(events, {"notify"})) = Len(_observers[sev])
          /\ \A i \in At(events, {"count", "notify"}) :
                \A j \in At(events, {"present", "exit"}) : i < j
          /\ \A i \in At(events, {"count"}) : \A j \in At(events, {"notify"}) : i < j
          /\ [i \in 1..Len(_observers[sev]) |-> events[i + 1].observer] = _observers[sev]
          /\ (exited' # NoExit) <=> At(events, {"exit"}) = {Len(events)}
          /\ (exited' = NoExit) <=> At(events, {"exit"}) = {}
          /\ exited' # NoExit =>
                /\ events[Len(events)].code = exited'
                /\ _error_counts'[sev] = _error_counts[sev] + 1
                /\ notified' = _observers[sev]
      ]_vars

C25_Witness ==
    /\ last.op = "handle"
    /\ last.error = KafkaCliError("Command", "CRITICAL", NoCode)
    /\ exited = 1
    /\ _error_counts["CRITICAL"] = 1
    /\ notified = <<"cb1", "cb2">>
    /\ Len(last.events) = 5

\* C28 as stated: if a subscriber calls register or unregister on the error
\* handler while handle(e) is notifying, every other subscriber that was
\* registered for e.severity when handle(e) began is still invoked exactly
\* once (once for each registration it held) during that handle call.
C28_ReentrantNotifiesAll ==
    [][ last'.op = "handle" =>
          \A cb \in Callbacks :
             (last'.does[cb].call = "none" /\ InList(_observers[last'.error.severity], cb)) =>
                Count(notified', cb) = Count(_observers[last'.error.severity], cb)
      ]_vars

\* C6: handle(e) ends the process if and only if e is CRITICAL, or e is ERROR
\* and carries an exit code; the exit status is the exit code when there is
\* one and 1 otherwise; INFO and WARNING never end the process.
C6_ExitPolicy ==
    last.op = "handle" =>
        LET e == last.error IN
        /\ (exited # NoExit) <=>
              (e.severity = "CRITICAL" \/ (e.severity = "ERROR" /\ e.exit_code # NoCode))
        /\ (exited # NoExit) => exited = IF e.exit_code # NoCode THEN e.exit_code ELSE 1

C6_Witness ==
    /\ last.op = "handle"
    /\ last.error = KafkaCliError("Command", "ERROR", 0)
    /\ exited = 0

\* C16: handle_exception(exc) passes a taxonomy error to handle unchanged, so
\* that it is counted under its own severity; any other exception is wrapped
\* as a Command error of severity ERROR without exit code and with the
\* exception's type name in details, so it adds one to the ERROR counter only
\* and never ends the process.
C16_HandleException ==
    [][ last'.op = "handle_exception" =>
          LET exc == last'.exc IN
          IF exc.kind \in TaxonomyKinds
          THEN /\ last'.error = exc
               /\ CountsStep(exc)
               /\ notified' = handle_notify(_observers, exc)
               /\ exited' = handle_exit(exc)
          ELSE /\ last'.error = KafkaCliError("Command", "ERROR", NoCode)
               /\ last'.details = {<<"exception_type", exc.kind>>}
               /\ _error_counts' = [_error_counts EXCEPT !["ERROR"] = @ + 1]
               /\ notified' = _observers["ERROR"]
               /\ exited' = NoExit
      ]_vars

C16_Witness ==
    /\ last.op = "handle_exception"
    /\ last.exc = [kind |-> "AttributeError"]
    /\ last.details = {<<"exception_type", "AttributeError">>}
    /\ _error_counts = [NoCounts EXCEPT !["ERROR"] = 1]
    /\ exited = NoExit

\* the frame of unregister: counters, the registrations of other callbacks
\* (and their order) and the severities not affected are as before, and a
\* severity for which the callback is not registered keeps its list
UnregisterFrame(observer, severity) ==
    /\ UNCHANGED <<_error_counts, exited, files, configFile, _config>>
    /\ \A sev \in Severities :
          /\ Without(_observers'[sev], observer) = Without(_observers[sev], observer)
          /\ severity \notin {"None", sev} => _observers'[sev] = _observers[sev]
          /\ ~InList(_observers[sev], observer) => _observers'[sev] = _observers[sev]

\* C17 as stated: unregister(cb, sev), sev = None meaning all four severities,
\* leaves the registry unchanged when cb is not registered for the affected
\* severity, and otherwise a later handle(e) of an affected severity no longer
\* calls cb; other subscribers and all counters are never changed.
C17_UnregisterSilences ==
    [][ last'.op = "unregister" =>
          /\ UnregisterFrame(last'.observer, last'.severity)
          /\ \A sev \in Severities :
                last'.severity \in {"None", sev} =>
                    ~InList(handle_notify(_observers', KafkaCliError("Command", sev, NoCode)),
                            last'.observer)
      ]_vars

\* C17 amended: unregister(cb, sev), sev = None meaning all four severities,
\* leaves the registry unchanged when cb is not registered for the affected
\* severity, and otherwise removes one registration of cb (the oldest) from
\* each affected severity: a later handle(e) of an affected severity calls cb
\* once less than before, so no longer at all when cb was registered once for
\* it; other subscribers and all counters are never changed.
C17_UnregisterOnce ==
    [][ last'.op = "unregister" =>
          /\ UnregisterFrame(last'.observer, last'.severity)
          /\ \A sev \in Severities :
                (last'.severity \in {"None", sev} /\ InList(_observers[sev], last'.observer)) =>
                    LET later == handle_notify(_observers', KafkaCliError("Command", sev, NoCode))
                    IN  /\ Count(later, last'.observer) = Count(_observers[sev], last'.observer) - 1
                        /\ _observers'[sev] = list_remove(_observers[sev], last'.observer)
                        /\ Count(_observers[sev], last'.observer) = 1
                              => ~InList(later, last'.observer)
      ]_vars

C17_Witness ==
    /\ last.op = "unregister"
    /\ last.observer = "cb1"
    /\ last.severity = "None"
    /\ _observers["ERROR"] = <<"cb2">>
    /\ _observers["INFO"] = <<>>

\* C18 as stated: create(tag) fails with a lookup failure, without
\* constructing anything or reporting to the error handler, when tag is not
\* registered; when the registered constructor raises any exception, that
\* exception is reported through the error handler exactly once and create
\* then fails with a construction failure raised to the caller.
C18_CreateFailure ==
    [][ last'.op = "create" =>
          LET out == last'.out IN
          /\ last'.command_type \notin _commands =>
                /\ out.leave = "ValueError: No command registered"
                /\ ~out.constructed
                /\ UNCHANGED <<_error_counts, notified, exited>>
          /\ (last'.command_type \in _commands /\ last'.constructor.kind # "returns") =>
                /\ Sum(_error_counts') = Sum(_error_counts) + 1
                /\ out.leave = "ValueError: Failed to create command"
      ]_vars

\* C18 amended: create(tag) fails with a lookup failure (ValueError), without
\* constructing anything or reporting to the error handler, when tag is not
\* registered; when the registered constructor raises an Exception, it is
\* reported through handle_exception exactly once, and create then fails with
\* a construction failure (ValueError) raised to the caller, unless handling
\* the exception ends the process (a taxonomy error that is CRITICAL, or ERROR
\* with an exit code), in which case typer.Exit leaves create; an exception
\* that is not an Exception (KeyboardInterrupt) leaves create unreported.
C18_CreateFailureOrExit ==
    [][ last'.op = "create" =>
          LET out == last'.out
              raised == last'.constructor
          IN
          /\ last'.command_type \notin _commands =>
                /\ out.leave = "ValueError: No command registered"
                /\ ~out.constructed
                /\ UNCHANGED <<_error_counts, notified, exited>>
          /\ (last'.command_type \in _commands /\ raised.kind = "returns") =>
                /\ out.leave = "return"
                /\ UNCHANGED <<_error_counts, notified, exited>>
          /\ (last'.command_type \in _commands /\ raised.kind = "KeyboardInterrupt") =>
                /\ out.leave = "KeyboardInterrupt"
                /\ UNCHANGED <<_error_counts, notified, exited>>
          /\ (last'.command_type \in _commands
                /\ raised.kind \notin {"returns", "KeyboardInterrupt"}) =>
                LET err == handle_exception(raised) IN
                /\ CountsStep(err)
                /\ notified' = handle_notify(_observers, err)
                /\ exited' = handle_exit(err)
                /\ exited' = NoExit => out.leave = "ValueError: Failed to create command"
                /\ exited' # NoExit => out.leave = "Exit"
                /\ (exited' # NoExit) <=>
                      (raised.kind \in TaxonomyKinds
                         /\ (raised.severity = "CRITICAL"
                               \/ (raised.severity = "ERROR" /\ raised.exit_code # NoCode)))
      ]_vars

C18_Witness ==
    /\ last.op = "create"
    /\ last.command_type = "delete_profile"
    /\ last.constructor = [kind |-> "AttributeError"]
    /\ last.out.leave = "ValueError: Failed to create command"
    /\ _error_counts = [NoCounts EXCEPT !["ERROR"] = 1]
    /\ exited = NoExit

(***************************************************************************)
(* Prompt strategies (core/interactive.py).  A prompt value is a record    *)
(* [t, n, s, l]: the type, and the int, str or list it holds.              *)
(***************************************************************************)
VNone == [t |-> "none", n |-> 0, s |-> "", l |-> <<>>]
VStr(x) == [t |-> "str", n |-> 0, s |-> x, l |-> <<>>]
VInt(x) == [t |-> "int", n |-> x, s |-> "", l |-> <<>>]
VBool(b) == [t |-> "bool", n |-> IF b THEN 1 ELSE 0, s |-> "", l |-> <<>>]
VList(x) == [t |-> "list", n |-> 0, s |-> "", l |-> x]

\* Python truth value
truthy(v) ==
    CASE v.t = "none" -> FALSE
      [] v.t = "str" -> v.s # ""
      [] v.t = "int" -> v.n # 0
      [] v.t = "bool" -> v.n = 1
      [] v.t = "list" -> v.l # <<>>

\* stdin is a tty, CI or PYTEST_CURRENT_TEST is in the environment,
\* --no-interaction or -n is on the command line: the interactive
\* environment, and each reason not to be interactive on its own
Envs ==
    {env \in [isatty : BOOLEAN, ci : BOOLEAN, flag : BOOLEAN] :
        ~(~env.isatty /\ env.ci) /\ ~(~env.isatty /\ env.flag) /\ ~(env.ci /\ env.flag)}

is_interactive(env) ==
    IF ~env.isatty THEN FALSE
    ELSE IF env.ci THEN FALSE
    ELSE IF env.flag THEN FALSE
    ELSE TRUE

\* how a prompt call goes on: it returns a value, raises typer.Exit(code),
\* raises CommandError, blocks in input(), or calls itself again
Return(v) == [kind |-> "return", value |-> v, code |-> 0, acc |-> <<>>]
Exit(code) == [kind |-> "exit", value |-> VNone, code |-> code, acc |-> <<>>]
RaiseCommandError == [kind |-> "raise", value |-> VNone, code |-> 0, acc |-> <<>>]
Read(acc) == [kind |-> "read", value |-> VNone, code |-> 0, acc |-> acc]
Recurse == [kind |-> "recurse", value |-> VNone, code |-> 0, acc |-> <<>>]

Strategies == {"text", "select", "confirm", "multiselect", "number", "password", "path"}

\* the keyword arguments of a prompt call; default VNone: no default given
BaseKw ==
    [default |-> VNone, choices |-> <<>>, min_selections |-> 0, min_value |-> VNone,
     max_value |-> VNone, multiline |-> FALSE, confirm |-> FALSE, must_exist |-> FALSE,
     file_okay |-> TRUE, dir_okay |-> TRUE]

ChoiceLists == {<<>>, <<"a", "b", "c">>}

KwOf(strategy) ==
    CASE strategy = "text" ->
            {[BaseKw EXCEPT !.default = d, !.multiline = m] :
                d \in {VNone, VStr(""), VStr("d")}, m \in BOOLEAN}
      [] strategy = "select" ->
            {[BaseKw EXCEPT !.default = d, !.choices = c] :
                d \in {VNone, VStr("b")}, c \in ChoiceLists}
      [] strategy = "confirm" ->
            {[BaseKw EXCEPT !.default = d] : d \in {VNone, VBool(TRUE), VBool(FALSE)}}
      [] strategy = "multiselect" ->
            {[BaseKw EXCEPT !.default = d, !.choices = c, !.min_selections = m] :
                d \in {VNone, VList(<<>>), VList(<<"b">>)}, c \in ChoiceLists, m \in {0, 1, 2}}
      [] strategy = "number" ->
            {[BaseKw EXCEPT !.default = d, !.min_value = lo, !.max_value = hi] :
                d \in {VNone, VInt(0), VInt(3)}, lo \in {VNone, VInt(1)}, hi \in {VNone, VInt(20)}}
      [] strategy = "password" ->
            {[BaseKw EXCEPT !.default = d, !.confirm = c] :
                d \in {VNone, VStr("pw")}, c \in BOOLEAN}
      [] strategy = "path" ->
            {[BaseKw EXCEPT !.default = d, !.must_exist = e, !.file_okay = f] :
                d \in {VNone, VStr("~/d")}, e \in BOOLEAN, f \in BOOLEAN}

\* kwargs.get("default", False) and kwargs.get("default", [])
confirm_default(kw) == IF kw.default = VNone THEN VBool(FALSE) ELSE kw.default
multiselect_default(kw) == IF kw.default = VNone THEN VList(<<>>) ELSE kw.default

\* choices[:n]
slice(list, n) == SubSeq(list, 1, IF n < Len(list) THEN n ELSE Len(list))

(***************************************************************************)
(* The part of each prompt() before the first input(): the checks of the   *)
(* arguments and the branch taken when is_interactive() is false.          *)
(***************************************************************************)
\* mutant of text_begin: the default is tested for truth, not for None
text_begin_truthy(kw, interactive) ==
    IF ~interactive
    THEN IF truthy(kw.default) THEN Return(kw.default) ELSE Exit(1)
    ELSE Read(<<>>)

text_begin(kw, interactive) ==
    IF ~interactive
    THEN IF kw.default # VNone THEN Return(kw.default) ELSE Exit(1)
    ELSE Read(<<>>)

select_begin(kw, interactive) ==
    IF kw.choices = <<>> THEN RaiseCommandError
    ELSE IF ~interactive
    THEN IF kw.default # VNone THEN Return(kw.default)
         ELSE IF kw.choices # <<>> THEN Return(VStr(kw.choices[1]))
         ELSE Exit(1)
    ELSE Read(<<>>)

confirm_begin(kw, interactive) ==
    IF ~interactive THEN Return(confirm_default(kw)) ELSE Read(<<>>)

multiselect_begin(kw, interactive) ==
    IF kw.choices = <<>> THEN RaiseCommandError
    ELSE IF ~interactive
    THEN IF truthy(multiselect_default(kw)) THEN Return(multiselect_default(kw))
         ELSE IF kw.min_selections > 0 THEN Return(VList(slice(kw.choices, kw.min_selections)))
         ELSE Return(VList(<<>>))
    ELSE Read(<<>>)

\* mutant of number_begin: without a default, a missing minimum gives exit 1
number_begin_exit(kw, interactive) ==
    IF ~interactive
    THEN IF kw.default # VNone THEN Return(kw.default)
         ELSE IF kw.min_value # VNone THEN Return(kw.min_value)
         ELSE Exit(1)
    ELSE Read(<<>>)

number_begin(kw, interactive) ==
    IF ~interactive
    THEN IF kw.default # VNone THEN Return(kw.default)
         ELSE IF kw.min_value # VNone THEN Return(kw.min_value)
         ELSE Return(VInt(0))
    ELSE Read(<<>>)

password_begin(kw, interactive) ==
    IF ~interactive
    THEN IF kw.default # VNone THEN Return(kw.default) ELSE Exit(1)
    ELSE Read(<<>>)

path_begin(kw, interactive) ==
    IF ~interactive
    THEN IF kw.default # VNone THEN Return(kw.default) ELSE Exit(1)
    ELSE Read(<<>>)

prompt_begin(strategy, kw, interactive) ==
    CASE strategy = "text" -> text_begin(kw, interactive)
      [] strategy = "select" -> select_begin(kw, interactive)
      [] strategy = "confirm" -> confirm_begin(kw, interactive)
      [] strategy = "multiselect" -> multiselect_begin(kw, interactive)
      [] strategy = "number" -> number_begin(kw, interactive)
      [] strategy = "password" -> password_begin(kw, interactive)
      [] strategy = "path" -> path_begin(kw, interactive)

(***************************************************************************)
(* The part of each prompt() after an input(): the line typed, a           *)
(* KeyboardInterrupt, or another exception (EOFError) raised by input().   *)
(***************************************************************************)
Lines == {"", " ", "x", "0", "2", "25", "1 2", "y", "N", "~/d", "f.txt"}

Events == [type : {"line"}, line : Lines]
            \cup {[type |-> "KeyboardInterrupt", line |-> ""], [type |-> "EOFError", line |-> ""]}

\* str.strip, str.lower, str.split and int() on the lines above
strip(line) == IF line = " " THEN "" ELSE line
lower(value) == IF value = "N" THEN "n" ELSE value
split(value) ==
    IF value = "" THEN <<>> ELSE IF value = "1 2" THEN <<"1", "2">> ELSE <<value>>
int_table == [x \in {"0", "1", "2", "25"} |->
                CASE x = "0" -> 0 [] x = "1" -> 1 [] x = "2" -> 2 [] x = "25" -> 25]
is_int(x) == x \in DOMAIN int_table

\* os.path.expanduser and what Path.exists/is_file/is_dir see
expanduser(p) == IF p = "~/d" THEN "/home/u/d" ELSE p
path_kind(p) == IF p = "/home/u/d" THEN "dir" ELSE IF p = "f.txt" THEN "file" ELSE "missing"

RECURSIVE join(_)
join(lines) ==
    IF Len(lines) = 1 THEN lines[1] ELSE lines[1] \o "\n" \o join(Tail(lines))

text_input(kw, acc, line) ==
    IF ~kw.multiline
    THEN LET value == strip(line) IN
         IF value = "" /\ kw.default # VNone THEN Return(kw.default) ELSE Return(VStr(value))
    ELSE IF line = "" /\ acc = <<>>
         THEN Return(IF kw.default # VNone THEN kw.default ELSE VStr(""))
         ELSE IF line = "" THEN Return(VStr(join(acc)))
         ELSE Read(Append(acc, line))

select_input(kw, acc, line) ==
    LET value == strip(line) IN
    IF value = "" /\ truthy(kw.default) THEN Return(kw.default)
    ELSE IF is_int(value) /\ 1 <= int_table[value] /\ int_table[value] <= Len(kw.choices)
    THEN Return(VStr(kw.choices[int_table[value]]))
    ELSE Read(acc)

confirm_input(kw, acc, line) ==
    LET value == lower(strip(line)) IN
    IF value = "" THEN Return(confirm_default(kw))
    ELSE IF value \in {"y", "yes"} THEN Return(VBool(TRUE))
    ELSE IF value \in {"n", "no"} THEN Return(VBool(FALSE))
    ELSE Read(acc)

\* the choices named by the valid indices, in the order typed
RECURSIVE selected_items(_, _)
selected_items(tokens, choices) ==
    IF tokens = <<>> THEN <<>>
    ELSE LET idx == int_table[Head(tokens)] IN
         (IF 1 <= idx /\ idx <= Len(choices) THEN <<choices[idx]>> ELSE <<>>)
            \o selected_items(Tail(tokens), choices)

\* mutant of multiselect_input: the selection is returned whatever its length
multiselect_input_any_length(kw, acc, line) ==
    LET value == strip(line)
        tokens == split(value)
        default == multiselect_default(kw)
    IN  IF value # "" /\ \E i \in 1..Len(tokens) : ~is_int(tokens[i]) THEN Read(acc)
        ELSE LET items == IF value = ""
                          THEN (IF truthy(default) THEN default.l ELSE <<>>)
                          ELSE selected_items(tokens, kw.choices)
             IN  Return(VList(items))

multiselect_input(kw, acc, line) ==
    LET value == strip(line)
        tokens == split(value)
        default == multiselect_default(kw)
    IN  IF value # "" /\ \E i \in 1..Len(tokens) : ~is_int(tokens[i]) THEN Read(acc)
        ELSE LET items == IF value = ""
                          THEN (IF truthy(default) THEN default.l ELSE <<>>)
                          ELSE selected_items(tokens, kw.choices)
             IN  IF kw.min_selections > 0 /\ Len(items) < kw.min_selections
                 THEN Read(acc)
                 ELSE Return(VList(items))

\* mutant of number_input: the maximum is not tested
number_input_no_max(kw, acc, line) ==
    LET input_value == strip(line) IN
    IF input_value = "" /\ kw.default # VNone THEN Return(kw.default)
    ELSE IF ~is_int(input_value) THEN Read(acc)
    ELSE IF kw.min_value # VNone /\ int_table[input_value] < kw.min_value.n THEN Read(acc)
    ELSE Return(VInt(int_table[input_value]))

number_input(kw, acc, line) ==
    LET input_value == strip(line) IN
    IF input_value = "" /\ kw.default # VNone THEN Return(kw.default)
    ELSE IF ~is_int(input_value) THEN Read(acc)
    ELSE IF kw.min_value # VNone /\ int_table[input_value] < kw.min_value.n THEN Read(acc)
    ELSE IF kw.max_value # VNone /\ int_table[input_value] > kw.max_value.n THEN Read(acc)
    ELSE Return(VInt(int_table[input_value]))

\* acc holds the first password while the confirmation is read
password_input(kw, acc, line) ==
    IF acc = <<>>
    THEN IF line = "" /\ kw.default # VNone THEN Return(kw.default)
         ELSE IF kw.confirm /\ line # "" THEN Read(<<line>>)
         ELSE Return(VStr(line))
    ELSE IF acc[1] # line THEN Recurse ELSE Return(VStr(acc[1]))

path_input(kw, acc, line) ==
    LET input_value == strip(line)
        path_value == IF input_value = "" /\ kw.default # VNone THEN kw.default.s ELSE input_value
        kind == path_kind(expanduser(path_value))
    IN  IF path_value = ""
        THEN IF kw.default # VNone THEN Return(kw.default) ELSE Read(acc)
        ELSE IF kw.must_exist /\ kind = "missing" THEN Read(acc)
        ELSE IF kind = "file" /\ ~kw.file_okay THEN Read(acc)
        ELSE IF kind = "dir" /\ ~kw.dir_okay THEN Read(acc)
        ELSE Return(VStr(path_value))

\* except KeyboardInterrupt: raise typer.Exit(code=130)
on_keyboard_interrupt == Exit(130)

\* except Exception as e, of each strategy
text_except(kw) == IF kw.default # VNone THEN Return(kw.default) ELSE Exit(1)

select_except(kw) ==
    IF kw.default # VNone THEN Return(kw.default)
    ELSE IF kw.choices # <<>> THEN Return(VStr(kw.choices[1]))
    ELSE Exit(1)

confirm_except(kw) == Return(confirm_default(kw))

multiselect_except(kw) ==
    IF truthy(multiselect_default(kw)) THEN Return(multiselect_default(kw))
    ELSE IF kw.min_selections > 0 THEN Return(VList(slice(kw.choices, kw.min_selections)))
    ELSE Return(VList(<<>>))

number_except(kw) ==
    IF kw.default # VNone THEN Return(kw.default)
    ELSE IF kw.min_value # VNone THEN Return(kw.min_value)
    ELSE Return(VInt(0))

password_except(kw) == IF kw.default # VNone THEN Return(kw.default) ELSE Exit(1)

path_except(kw) == IF kw.default # VNone THEN Return(kw.default) ELSE Exit(1)

prompt_except(strategy, kw) ==
    CASE strategy = "text" -> text_except(kw)
      [] strategy = "select" -> select_except(kw)
      [] strategy = "confirm" -> confirm_except(kw)
      [] strategy = "multiselect" -> multiselect_except(kw)
      [] strategy = "number" -> number_except(kw)
      [] strategy = "password" -> password_except(kw)
      [] strategy = "path" -> path_except(kw)

prompt_line(strategy, kw, acc, line) ==
    CASE strategy = "text" -> text_input(kw, acc, line)
      [] strategy = "select" -> select_input(kw, acc, line)
      [] strategy = "confirm" -> confirm_input(kw, acc, line)
      [] strategy = "multiselect" -> multiselect_input(kw, acc, line)
      [] strategy = "number" -> number_input(kw, acc, line)
      [] strategy = "password" -> password_input(kw, acc, line)
      [] strategy = "path" -> path_input(kw, acc, line)

\* typer.Exit is a RuntimeError: raised by the inner call of
\* "return self.prompt(message, **kwargs)" (password, after a mismatch), it is
\* caught by the "except Exception" of the calling frame
password_unwind(kw, nested, out) ==
    IF nested /\ out.kind = "exit" THEN password_except(kw) ELSE out

\* what one prompt() call does with the event its input() ends with
prompt_input(strategy, kw, acc, nested, ev) ==
    LET out == IF ev.type = "KeyboardInterrupt" THEN on_keyboard_interrupt
               ELSE IF ev.type = "EOFError" THEN prompt_except(strategy, kw)
               ELSE prompt_line(strategy, kw, acc, ev.line)
    IN  password_unwind(kw, nested, out)

(***************************************************************************)
(* CommandResult (core/commands/base.py): [success, value, error], the     *)
(* error a string or ErrNone                                               *)
(***************************************************************************)
ErrNone == "<None>"

CommandResult(success, value, error) == [success |-> success, value |-> value, error |-> error]
ok(value) == CommandResult(TRUE, value, ErrNone)
error(error_message) == CommandResult(FALSE, VNone, error_message)

(***************************************************************************)
(* DeleteProfileCommand.execute (core/commands/profile_commands.py), cut   *)
(* at its two prompts.  A part returns what the command does next: it      *)
(* blocks in a prompt (CmdPrompt), or it returns a result after passing    *)
(* handled, the exception caught by "except Exception" (or NoError), to    *)
(* ErrorHandler().handle_exception (CmdDone).                              *)
(***************************************************************************)

CmdDone(result, handled) == [kind |-> "done", result |-> result, handled |-> handled]
CmdPrompt(pc, strategy, kw, profile_name) ==
    [kind |-> "prompt", pc |-> pc, strategy |-> strategy, kw |-> kw, profile_name |-> profile_name]

\* except Exception as e, when e comes out of a prompt: typer.Exit is a
\* RuntimeError whose str() is empty
delete_caught(out) ==
    IF out.kind = "exit"
    THEN CmdDone(error(""), handle_exception([kind |-> "Exit"]))
    ELSE CmdDone(error("No choices provided"), handle_exception(CommandError))

\* lines 170-171: ConfigManager has no get_active_profile_name
delete_active_profile ==
    CmdDone(error("no attribute get_active_profile_name"),
            handle_exception([kind |-> "AttributeError"]))

\* lines 166-168, once Prompt.confirm is over
delete_confirmed(out) ==
    IF out.kind # "return" THEN delete_caught(out)
    ELSE IF ~truthy(out.value) THEN CmdDone(error("Profile deletion cancelled by user"), NoError)
    ELSE delete_active_profile

\* lines 162-166, up to Prompt.confirm
delete_check(profiles, profile_name, force, interactive) ==
    IF ~InList(profiles, profile_name)
    THEN CmdDone(error("Profile does not exist"), handle_exception(ValidationError))
    ELSE IF force THEN delete_active_profile
    ELSE LET kw == [BaseKw EXCEPT !.default = VBool(FALSE)]
             out == confirm_begin(kw, interactive)
         IN  IF out.kind = "read" THEN CmdPrompt("confirm", "confirm", kw, profile_name)
             ELSE delete_confirmed(out)

\* lines 160-162, once Prompt.select is over
delete_selected(profiles, force, interactive, out) ==
    IF out.kind # "return" THEN delete_caught(out)
    ELSE delete_check(profiles, out.value.s, force, interactive)

\* lines 153-160, up to Prompt.select; profile_name "" stands for None
delete_execute(profiles, profile_name, force, interactive) ==
    IF profiles = <<>> THEN CmdDone(error("No profiles available"), NoError)
    ELSE IF profile_name = ""
    THEN LET kw == [BaseKw EXCEPT !.choices = profiles]
             out == select_begin(kw, interactive)
         IN  IF out.kind = "read" THEN CmdPrompt("select", "select", kw, "")
             ELSE delete_selected(profiles, force, interactive, out)
    ELSE delete_check(profiles, profile_name, force, interactive)

\* the part of execute that follows the prompt the command is blocked in
delete_resume(c, out) ==
    IF c.pc = "select" THEN delete_selected(c.profiles, c.force, TRUE, out)
    ELSE delete_confirmed(out)

(***************************************************************************)
(* CreateProfileCommand.execute called with interactive=False, so that it  *)
(* calls no prompt.                                                        *)
(***************************************************************************)
\* profile_data, lines 86-99
profile_skeleton(profile_name) ==
    [k \in {"profile", "gcp", "kafka", "network", "security"} |->
        CASE k = "profile" -> PyDict([j \in {"name", "cloud"} |->
                IF j = "name" THEN Leaf("str", profile_name) ELSE Leaf("str", "gcp")])
          [] k = "gcp" -> PyDict([j \in {"project_id", "region", "zone"} |-> Leaf("str", "")])
          [] k = "kafka" -> PyDict([j \in {"cluster_name", "broker_count", "zookeeper_count",
                                          "machine_type", "disk_type", "disk_size_gb"} |->
                CASE j = "cluster_name" -> Leaf("str", "")
                  [] j = "broker_count" -> Leaf("int", "3")
                  [] j = "zookeeper_count" -> Leaf("int", "3")
                  [] j = "machine_type" -> Leaf("str", "e2-standard-2")
                  [] j = "disk_type" -> Leaf("str", "pd-standard")
                  [] j = "disk_size_gb" -> Leaf("int", "100")])
          [] k = "network" -> PyDict([j \in {"network_name", "subnet_name"} |->
                Leaf("str", "default")])
          [] k = "security" -> PyDict([j \in {"enable_public_endpoints", "enable_tls",
                                             "enable_sasl"} |->
                IF j = "enable_tls" THEN Leaf("bool", "true") ELSE Leaf("bool", "false")])]

\* what execute leaves: the result, the profile files, the config in memory,
\* and handled, the error passed to the handler (by save_profile, or by
\* "except Exception") or NoError; profile_name "" stands for None.
\* Lines 120-133, once save_profile has returned s; lines 124-125:
\* ConfigManager has no set_active_profile
create_saved(s, listed, profile_name) ==
    IF ~s.ret
    THEN [result |-> error("Failed to save profile"), fs |-> s.fs, cfg |-> s.cfg,
          handled |-> ConfigurationError, details |-> {}]
    ELSE IF Len(listed) = 0
    THEN [result |-> error("no attribute set_active_profile"), fs |-> s.fs,
          cfg |-> s.cfg, handled |-> handle_exception([kind |-> "AttributeError"]),
          details |-> handle_exception_details([kind |-> "AttributeError"])]
    ELSE [result |-> ok(VStr(profile_name)), fs |-> s.fs, cfg |-> s.cfg,
          handled |-> NoError, details |-> {}]

\* lines 72-120, up to save_profile; line 76 raises
\* ValidationError("Profile name is required"), made without field
create_execute(fs, cfg, cf, listed, profile_name, ioOk) ==
    IF profile_name = ""
    THEN [result |-> error("Profile name is required"), fs |-> fs, cfg |-> cfg,
          handled |-> handle_exception(ValidationError),
          details |-> ValidationErrorDetails(NoField)]
    ELSE create_saved(save_profile(fs, cfg, cf, profile_skeleton(profile_name),
                                   PyStr(profile_name), ioOk),
                      listed, profile_name)

\* os.listdir gives the names in any order
listdir(fs) ==
    LET S == list_profiles(fs) IN
    {seq \in [1..Cardinality(S) -> S] : \A i, j \in 1..Cardinality(S) : seq[i] = seq[j] => i = j}

(***************************************************************************)
(* Prompts and DeleteProfileCommand as steps of the process.  A prompt     *)
(* blocked in input() is [status |-> "reading", strategy, kw, acc, nested, *)
(* reads]: acc is what it has read and kept, nested whether it is a        *)
(* PasswordPromptStrategy.prompt called by itself, reads the input() calls *)
(* answered.  A command blocked in a prompt is [pc, profiles,              *)
(* profile_name, force].                                                   *)
(***************************************************************************)
MaxReads == 3

Reading(strategy, kw) ==
    [status |-> "reading", strategy |-> strategy, kw |-> kw, acc |-> <<>>, nested |-> FALSE,
     reads |-> 0]

\* the prompt goes on to its next input()
PromptGoesOn(out) ==
    /\ prompt' = [prompt EXCEPT !.acc = out.acc, !.reads = @ + 1,
                                !.nested = @ \/ out.kind = "recurse"]
    /\ UNCHANGED <<_instances, files, configFile, _config, _error_counts, _observers, notified, exited,
                   cmd, last>>

\* a prompt called on its own is over: typer.Exit ends the process, a
\* CommandError goes to the caller
PromptDone(strategy, kw, interactive, reads, event, line, nested, out) ==
    /\ prompt' = NoPrompt
    /\ exited' = IF out.kind = "exit" THEN out.code ELSE exited
    /\ last' = [op |-> "prompt", strategy |-> strategy, kw |-> kw, interactive |-> interactive,
                reads |-> reads, event |-> event, line |-> line, nested |-> nested,
                out |-> out]
    /\ UNCHANGED <<_instances, files, configFile, _config, _error_counts, _observers, notified, cmd>>

PromptCall ==
    \E strategy \in Strategies, env \in Envs :
        \E kw \in KwOf(strategy) :
            LET interactive == is_interactive(env)
                out == prompt_begin(strategy, kw, interactive)
            IN  /\ Running
                /\ IF out.kind = "read"
                   THEN /\ prompt' = Reading(strategy, kw)
                        /\ last' = [op |-> "call"]
                        /\ UNCHANGED <<_instances, files, configFile, _config, _error_counts, _observers,
                                       notified, exited, cmd>>
                   ELSE PromptDone(strategy, kw, interactive, 0, "none", "", FALSE, out)

PromptInput ==
    \E ev \in Events :
        /\ exited = NoExit
        /\ prompt.status = "reading"
        /\ cmd.pc = "idle"
        /\ prompt.reads < MaxReads
        /\ LET out == prompt_input(prompt.strategy, prompt.kw, prompt.acc, prompt.nested, ev) IN
           IF out.kind \in {"read", "recurse"}
           THEN PromptGoesOn(out)
           ELSE PromptDone(prompt.strategy, prompt.kw, TRUE, prompt.reads + 1, ev.type, ev.line,
                           prompt.nested, out)

\* the command blocks in a prompt, or returns after handle_exception
CommandStep(r, profiles, profile_name, force, event) ==
    IF r.kind = "prompt"
    THEN /\ cmd' = [pc |-> r.pc, profiles |-> profiles, profile_name |-> profile_name,
                  force |-> force]
         /\ prompt' = Reading(r.strategy, r.kw)
         /\ last' = [op |-> "call"]
         /\ UNCHANGED <<_instances, files, configFile, _config, _error_counts, _observers, notified, exited>>
    ELSE /\ cmd' = NoCommand
         /\ prompt' = NoPrompt
         /\ _error_counts' = IF r.handled = NoError THEN _error_counts
                             ELSE handle_counts(_error_counts, r.handled)
         /\ notified' = IF r.handled = NoError THEN notified
                        ELSE handle_notify(_observers, r.handled)
         /\ exited' = IF r.handled = NoError THEN exited ELSE handle_exit(r.handled)
         /\ last' = [op |-> "delete_profile_command", profile_name |-> profile_name,
                     force |-> force, profiles |-> profiles, result |-> r.result,
                     handled |-> r.handled, event |-> event]
         /\ UNCHANGED <<_instances, files, configFile, _config, _observers>>

DeleteExecute ==
    \E profiles \in listdir(files), profile_name \in {""} \cup Names, force \in BOOLEAN,
       env \in Envs :
        /\ Running
        /\ Sum(_error_counts) < MaxHandled
        /\ CommandStep(delete_execute(profiles, profile_name, force, is_interactive(env)),
                       profiles, profile_name, force, "none")

DeleteInput ==
    \E ev \in Events :
        /\ exited = NoExit
        /\ prompt.status = "reading"
        /\ cmd.pc # "idle"
        /\ prompt.reads < MaxReads
        /\ LET out == prompt_input(prompt.strategy, prompt.kw, prompt.acc, prompt.nested, ev) IN
           IF out.kind \in {"read", "recurse"}
           THEN PromptGoesOn(out)
           ELSE CommandStep(delete_resume(cmd, out), cmd.profiles, cmd.profile_name, cmd.force,
                            ev.type)

\* the command returns after save_profile and handle_exception
CreateStep(r, profiles, profile_name, ioOk) ==
    /\ Running
    /\ Sum(_error_counts) < MaxHandled
    /\ files' = r.fs
    /\ _config' = r.cfg
    /\ _error_counts' = IF r.handled = NoError THEN _error_counts
                        ELSE handle_counts(_error_counts, r.handled)
    /\ notified' = IF r.handled = NoError THEN notified
                   ELSE handle_notify(_observers, r.handled)
    /\ exited' = IF r.handled = NoError THEN exited ELSE handle_exit(r.handled)
    /\ last' = [op |-> "create_profile_command", profile_name |-> profile_name,
                profiles |-> profiles, ioOk |-> ioOk, result |-> r.result,
                handled |-> r.handled, details |-> r.details]
    /\ UNCHANGED <<_instances, configFile, _observers, prompt, cmd>>

CreateExecute ==
    \E profiles \in listdir(files), profile_name \in {""} \cup Names, ioOk \in BOOLEAN :
        CreateStep(create_execute(files, _config, configFile, profiles, profile_name, ioOk),
                   profiles, profile_name, ioOk)

InitPrompt ==
    /\ files \in {[n \in Names |-> Absent],
                  [n \in Names |-> IF n = "a" THEN EmptyFile ELSE Absent]}
    /\ configFile = yaml_dump(DefaultConfig)
    /\ _config = EmptyDoc
    /\ _error_counts = NoCounts
    /\ _observers = NoObservers
    /\ notified = <<>>
    /\ exited = NoExit
    /\ prompt = NoPrompt
    /\ cmd = NoCommand
    /\ last = [op |-> "init"]
    /\ _instances = NoInstances

NextPrompt ==
    \/ PromptCall
    \/ PromptInput
    \/ DeleteExecute
    \/ DeleteInput
    \/ Restart

SpecPrompt == InitPrompt /\ [][NextPrompt]_vars

NextCommand ==
    \/ CreateExecute
    \/ DeleteExecute
    \/ DeleteInput
    \/ Restart

SpecCommand == InitPrompt /\ [][NextCommand]_vars

(***************************************************************************)
(* The places of the core that make a ValidationError (core/errors.py,     *)
(* CreateProfileCommand.execute)                                           *)
(***************************************************************************)
Fields == {NoField, "", "name"}

\* ValidationError(message, field=field)
NewValidationError ==
    \E field \in Fields :
        /\ Running
        /\ last' = [op |-> "ValidationError", field |-> field,
                    details |-> ValidationErrorDetails(field)]
        /\ UNCHANGED <<_instances, files, configFile, _config, _error_counts, _observers, notified,
                       exited, prompt, cmd>>

\* the first argument a function decorated with validation_required is called
\* with: not a dictionary, or a dictionary
NotDict == PyStr("x")
Datas ==
    {NotDict, PyDict(NoEntries), PyDict([j \in {"name"} |-> Leaf("str", "p")]),
     PyDict([j \in {"name", "cloud"} |-> IF j = "name" THEN Leaf("none", "") ELSE Leaf("str", "gcp")])}

\* [field for field in fields if field not in data or data[field] is None]
missing_fields(fields, data) ==
    {field \in fields : field \notin DOMAIN data.d \/ data.d[field].t = "none"}

\* the wrapper of validation_required(*fields): it raises a ValidationError,
\* made without field both times, or calls the function
validation_required(fields, data) ==
    IF data.t # "dict"
    THEN [raised |-> TRUE, missing |-> {}, details |-> ValidationErrorDetails(NoField)]
    ELSE IF missing_fields(fields, data) # {}
    THEN [raised |-> TRUE, missing |-> missing_fields(fields, data),
          details |-> ValidationErrorDetails(NoField)]
    ELSE [raised |-> FALSE, missing |-> {}, details |-> {}]

ValidationRequired ==
    \E fields \in SUBSET {"name", "cloud"}, data \in Datas :
        /\ Running
        /\ last' = [op |-> "validation_required", fields |-> fields, data |-> data,
                    out |-> validation_required(fields, data)]
        /\ UNCHANGED <<_instances, files, configFile, _config, _error_counts, _observers, notified,
                       exited, prompt, cmd>>

NextValidation ==
    \/ NewValidationError
    \/ ValidationRequired
    \/ CreateExecute
    \/ Restart

SpecValidation == InitPrompt /\ [][NextValidation]_vars

(***************************************************************************)
(* Claims about the prompts                                                *)
(***************************************************************************)
\* the last step was a prompt called on its own where is_interactive() is false
NonInteractivePrompt == last.op = "prompt" /\ ~last.interactive

\* C7 as stated: in a non-interactive environment every prompt strategy
\* called with a supplied default returns exactly that default without
\* reading any input, whatever the other options are.
C7_DefaultReturned ==
    (NonInteractivePrompt /\ last.kw.default # VNone) =>
        /\ last.out = Return(last.kw.default)
        /\ last.reads = 0

\* C7 amended: in a non-interactive environment a prompt strategy called with
\* a supplied default returns exactly that default without reading any input,
\* provided that select and multiselect are given at least one choice and
\* that the default of multiselect is a non-empty list or min_selections is 0.
\* With no choices select and multiselect raise CommandError; multiselect with
\* an empty default and min_selections > 0 returns the first min_selections
\* choices.
C7_DefaultReturnedWithChoices ==
    (NonInteractivePrompt /\ last.kw.default # VNone) =>
        LET kw == last.kw
            listed == last.strategy \in {"select", "multiselect"}
        IN  /\ last.reads = 0
            /\ exited = NoExit
            /\ (listed /\ kw.choices = <<>>) => last.out = RaiseCommandError
            /\ (listed => kw.choices # <<>>)
                  /\ (last.strategy = "multiselect" => truthy(kw.default) \/ kw.min_selections = 0)
                     => last.out = Return(kw.default)
            /\ (last.strategy = "multiselect" /\ kw.choices # <<>>
                  /\ ~truthy(kw.default) /\ kw.min_selections > 0)
                     => last.out = Return(VList(slice(kw.choices, kw.min_selections)))

C7_Witness ==
    /\ NonInteractivePrompt
    /\ last.strategy = "number"
    /\ last.kw.default = VInt(3)
    /\ last.kw.min_value = VInt(1)
    /\ last.kw.max_value = VInt(20)
    /\ last.out = Return(VInt(3))
    /\ last.reads = 0

Answering(strategy) ==
    /\ prompt.status = "reading"
    /\ prompt.strategy = strategy
    /\ cmd.pc = "idle"
    /\ prompt' # prompt

\* the prompt asks again: nothing is returned and the process goes on
Reprompts ==
    /\ prompt'.strategy = prompt.strategy
    /\ prompt'.kw = prompt.kw
    /\ prompt'.reads = prompt.reads + 1
    /\ UNCHANGED <<last, exited>>

\* the integers typed on a line
AllInts(tokens) == \A i \in 1..Len(tokens) : is_int(tokens[i])

C27_NumberBounds ==
    [][ Answering("number") =>
          LET kw == prompt.kw IN
          /\ prompt'.status = "reading" => Reprompts
          /\ (last'.op = "prompt" /\ last'.event = "line") =>
                LET input_value == strip(last'.line) IN
                /\ last'.out.kind = "return"
                /\ IF input_value = ""
                   THEN kw.default # VNone /\ last'.out.value = kw.default
                   ELSE /\ is_int(input_value)
                        /\ last'.out.value = VInt(int_table[input_value])
                        /\ kw.min_value # VNone => kw.min_value.n <= int_table[input_value]
                        /\ kw.max_value # VNone => int_table[input_value] <= kw.max_value.n
          /\ \A line \in Lines :
                LET input_value == strip(line)
                    out == number_input(kw, prompt.acc, line)
                IN  /\ (input_value = "" /\ kw.default # VNone) => out = Return(kw.default)
                    /\ (input_value # "" /\ ~is_int(input_value)) => out = Read(prompt.acc)
                    /\ (is_int(input_value) /\ kw.min_value # VNone
                            /\ int_table[input_value] < kw.min_value.n) => out = Read(prompt.acc)
                    /\ (is_int(input_value) /\ kw.max_value # VNone
                            /\ int_table[input_value] > kw.max_value.n) => out = Read(prompt.acc)
      ]_vars

C27_Witness ==
    /\ last.op = "prompt"
    /\ last.strategy = "number"
    /\ last.interactive
    /\ last.kw.min_value = VInt(1)
    /\ last.kw.max_value = VInt(20)
    /\ last.kw.default = VNone
    /\ last.reads = 3
    /\ last.line = "2"
    /\ last.out = Return(VInt(2))

\* C30 as stated: every integer returned by the number strategy lies within
\* the given bounds (at least min_value when given, at most max_value when
\* given) on every path: typed input, the default on empty input, the
\* non-interactive fallback, and the fallback taken when reading input fails.
C30_NumberWithinBounds ==
    (last.op = "prompt" /\ last.strategy = "number" /\ last.out.kind = "return") =>
        /\ last.kw.min_value # VNone => last.kw.min_value.n <= last.out.value.n
        /\ last.kw.max_value # VNone => last.out.value.n <= last.kw.max_value.n

\* C9 as stated: a keyboard interrupt during any prompt ends the process with
\* exit status 130, also when the prompt was issued from inside a command's
\* execute: the cancellation does not become an Err result.
C9_InterruptExits130 ==
    (last.op \in {"prompt", "delete_profile_command"} /\ last.event = "KeyboardInterrupt") =>
        exited = 130

(***************************************************************************)
(* CommandResult.map.  A function passed to map is a table from the value  *)
(* it is given to what it does: it returns a value, or raises an Exception *)
(* or a KeyboardInterrupt with a message.                                  *)
(***************************************************************************)
Values == {VNone, VInt(0), VStr("y")}
Messages == {"", "boom"}

Returns(v) == [kind |-> "return", value |-> v, exc |-> "none", msg |-> ""]
Raises(exc, msg) == [kind |-> "raise", value |-> VNone, exc |-> exc, msg |-> msg]

Behaviours ==
    {Returns(VNone), Returns(VStr("y")), Raises("Exception", ""), Raises("Exception", "boom"),
     Raises("KeyboardInterrupt", "")}
Funcs == [Values -> Behaviours]

\* what a call of map gives: the CommandResult it returns, or the exception
\* that leaves it (raised), and whether func was called
MapReturns(result, called) == [result |-> result, raised |-> "none", called |-> called]
MapRaises(exc) == [result |-> CommandResult(FALSE, VNone, ErrNone), raised |-> exc, called |-> TRUE]

\* mutant of map: the value is not tested for None
map_any_value(self, func) ==
    IF self.success
    THEN LET r == func[self.value] IN
         IF r.kind = "return" THEN MapReturns(ok(r.value), TRUE)
         ELSE IF r.exc = "Exception" THEN MapReturns(error(r.msg), TRUE)
         ELSE MapRaises(r.exc)
    ELSE MapReturns(CommandResult(self.success, VNone, self.error), FALSE)

map(self, func) ==
    IF self.success /\ self.value # VNone
    THEN LET r == func[self.value] IN
         IF r.kind = "return" THEN MapReturns(ok(r.value), TRUE)
         ELSE IF r.exc = "Exception" THEN MapReturns(error(r.msg), TRUE)
         ELSE MapRaises(r.exc)
    ELSE MapReturns(CommandResult(self.success, VNone, self.error), FALSE)

\* what a call of unwrap gives: the value returned, or the message of the
\* CommandError raised
UnwrapReturns(value) == [kind |-> "return", value |-> value, msg |-> ""]
UnwrapRaises(msg) == [kind |-> "CommandError", value |-> VNone, msg |-> msg]

\* mutant of unwrap: the value of an Ok result is returned even when it is None
unwrap_any_value(self) ==
    IF ~self.success
    THEN UnwrapRaises(IF self.error \in {ErrNone, ""} THEN "Unknown error" ELSE self.error)
    ELSE UnwrapReturns(self.value)

\* self.error or "Unknown error": None and "" both give "Unknown error"
unwrap(self) ==
    IF ~self.success
    THEN UnwrapRaises(IF self.error \in {ErrNone, ""} THEN "Unknown error" ELSE self.error)
    ELSE IF self.value = VNone THEN UnwrapRaises("Result value is None")
    ELSE UnwrapReturns(self.value)

\* what on_success and on_error give: the result returned and calls, the
\* arguments of the calls of the callback, in order
Chained(result, calls) == [result |-> result, calls |-> calls]

\* mutant of on_success: the callback is called for every Ok result
on_success_any_value(self) ==
    Chained(self, IF self.success THEN <<self.value>> ELSE <<>>)

on_success(self) ==
    Chained(self, IF self.success /\ self.value # VNone THEN <<self.value>> ELSE <<>>)

on_error(self) ==
    Chained(self, IF ~self.success /\ self.error # ErrNone THEN <<self.error>> ELSE <<>>)

\* the result the last step made or returned
HasResult == last.op \in {"ok", "error", "on_success", "on_error"}
                \/ (last.op = "map" /\ last.out.raised = "none")
Current == IF last.op = "map" THEN last.out.result ELSE last.result

Ok ==
    \E value \in Values :
        /\ Running
        /\ last' = [op |-> "ok", result |-> ok(value)]
        /\ UNCHANGED <<_instances, files, configFile, _config, _error_counts, _observers, notified, exited,
                       prompt, cmd>>

Error ==
    \E error_message \in Messages :
        /\ Running
        /\ last' = [op |-> "error", result |-> error(error_message)]
        /\ UNCHANGED <<_instances, files, configFile, _config, _error_counts, _observers, notified, exited,
                       prompt, cmd>>

\* result.map(func) on the result of the last step
Map ==
    \E func \in Funcs :
        /\ Running
        /\ HasResult
        /\ last' = [op |-> "map", self |-> Current, func |-> func, out |-> map(Current, func)]
        /\ UNCHANGED <<_instances, files, configFile, _config, _error_counts, _observers, notified, exited,
                       prompt, cmd>>

\* result.unwrap() on the result of the last step
Unwrap ==
    /\ Running
    /\ HasResult
    /\ last' = [op |-> "unwrap", self |-> Current, out |-> unwrap(Current)]
    /\ UNCHANGED <<_instances, files, configFile, _config, _error_counts, _observers, notified, exited,
                   prompt, cmd>>

\* result.on_success(callback), with a callback that returns
OnSuccess ==
    /\ Running
    /\ HasResult
    /\ LET r == on_success(Current) IN
       last' = [op |-> "on_success", self |-> Current, result |-> r.result, calls |-> r.calls]
    /\ UNCHANGED <<_instances, files, configFile, _config, _error_counts, _observers, notified, exited,
                   prompt, cmd>>

\* result.on_error(callback), with a callback that returns
OnError ==
    /\ Running
    /\ HasResult
    /\ LET r == on_error(Current) IN
       last' = [op |-> "on_error", self |-> Current, result |-> r.result, calls |-> r.calls]
    /\ UNCHANGED <<_instances, files, configFile, _config, _error_counts, _observers, notified, exited,
                   prompt, cmd>>

NextResult ==
    \/ Ok
    \/ Error
    \/ Map
    \/ Unwrap
    \/ OnSuccess
    \/ OnError

SpecResult == InitHandler /\ [][NextResult]_vars

(***************************************************************************)
(* Claims about CommandResult                                              *)
(***************************************************************************)
\* C10 as stated: for every value v and function f, ok(v).map(f) equals
\* ok(f(v)) when f does not raise and error(str(e)) when f raises e; map never
\* propagates an exception; map on an Err result returns an Err with the same
\* message without calling f.
C10_MapAnyValue ==
    last.op = "map" =>
        LET r == last.func[last.self.value] IN
        /\ last.out.raised = "none"
        /\ (last.self.success /\ r.kind = "return") => last.out.result = ok(r.value)
        /\ (last.self.success /\ r.kind = "raise") => last.out.result = error(r.msg)
        /\ ~last.self.success => last.out.result = error(last.self.error) /\ ~last.out.called

\* C10 amended: for every value v other than None and every function f that
\* returns or raises an Exception, ok(v).map(f) equals ok(f(v)) when f returns
\* and error(str(e)) when f raises e, and no exception leaves map; an exception
\* of f that is not an Exception (KeyboardInterrupt) leaves map; ok(None).map(f)
\* is ok(None) and f is not called; map on an Err result returns an Err with
\* the same message without calling f.
C10_MapValue ==
    last.op = "map" =>
        LET self == last.self
            r == last.func[self.value]
            out == last.out
        IN  /\ (self.success /\ self.value # VNone /\ r.kind = "return")
                  => out = MapReturns(ok(r.value), TRUE)
            /\ (self.success /\ self.value # VNone /\ r.kind = "raise" /\ r.exc = "Exception")
                  => out = MapReturns(error(r.msg), TRUE)
            /\ (self.success /\ self.value # VNone /\ r.kind = "raise" /\ r.exc # "Exception")
                  => out.raised = r.exc /\ out.called
            /\ (self.success /\ self.value = VNone) => out = MapReturns(ok(VNone), FALSE)
            /\ ~self.success => out = MapReturns(error(self.error), FALSE)

C10_Witness ==
    /\ last.op = "map"
    /\ last.self = ok(VInt(0))
    /\ last.func[VInt(0)] = Raises("Exception", "")
    /\ last.out = MapReturns(error(""), TRUE)

\* C11 as stated: error(m).unwrap() always fails with a command-error, and
\* ok(v).unwrap() always returns v, for every message m and every value v.
C11_UnwrapAnyValue ==
    last.op = "unwrap" =>
        /\ ~last.self.success => last.out.kind = "CommandError"
        /\ last.self.success => last.out = UnwrapReturns(last.self.value)

\* C11 amended: error(m).unwrap() always raises CommandError, with message m,
\* or "Unknown error" when m is empty; ok(v).unwrap() returns v for every value
\* v other than None; ok(None).unwrap() raises CommandError("Result value is
\* None").
C11_UnwrapValue ==
    last.op = "unwrap" =>
        LET self == last.self IN
        /\ ~self.success =>
              last.out = UnwrapRaises(IF self.error = "" THEN "Unknown error" ELSE self.error)
        /\ (self.success /\ self.value # VNone) => last.out = UnwrapReturns(self.value)
        /\ (self.success /\ self.value = VNone) => last.out = UnwrapRaises("Result value is None")

C11_Witness ==
    /\ last.op = "unwrap"
    /\ last.self = ok(VInt(0))
    /\ last.out = UnwrapReturns(VInt(0))

\* C12 as stated: every CommandResult made by ok, error and any chain of
\* map/on_success/on_error never carries a value and an error at the same
\* time, and every Err result carries a non-empty message.
C12_ResultInvariant ==
    HasResult =>
        /\ ~(Current.value # VNone /\ Current.error # ErrNone)
        /\ ~Current.success => Current.error \notin {ErrNone, ""}

C19_DeleteCommandRemoves ==
    (last.op = "delete_profile_command" /\ last.force
        /\ InList(last.profiles, last.profile_name)) =>
            /\ last.result.success
            /\ load_profile(files, _config, configFile, PyStr(last.profile_name)).out.isNone
            /\ last.profile_name \notin list_profiles(files)
            /\ Default # PyStr(last.profile_name)

\* C20 as stated: CreateProfileCommand.execute(profile_name=P,
\* interactive=False), in every store state in which P is not stored (the empty
\* store included), returns Ok(P) when the profile file can be written, and
\* afterwards load_profile(P) returns the skeleton document whose profile.name
\* is P; whenever the command returns Err, no profile has been written.
C20_CreateCommandCreates ==
    [][ (last'.op = "create_profile_command" /\ last'.profile_name # "") =>
          /\ (~InList(last'.profiles, last'.profile_name) /\ last'.ioOk) =>
                /\ last'.result = ok(VStr(last'.profile_name))
                /\ load_profile(files', _config', configFile',
                                PyStr(last'.profile_name)).out
                      = SomeOut(profile_skeleton(last'.profile_name))
          /\ ~last'.result.success => files' = files
      ]_vars

(***************************************************************************)
(* Claims about validation errors                                          *)
(***************************************************************************)
HasField(details) == \E kv \in details : kv[1] = "field"

\* C22 as stated: every Validation error that is constructed or raised by the
\* core (ValidationError itself, the validation_required decorator, the
\* profile commands) carries the offending field name under the key field in
\* its details.
C22_ValidationCarriesField ==
    /\ last.op = "ValidationError" => HasField(last.details)
    /\ (last.op = "validation_required" /\ last.out.raised) => HasField(last.out.details)
    /\ (last.op = "create_profile_command" /\ last.handled # NoError
          /\ last.handled.kind = "Validation") => HasField(last.details)

(***************************************************************************)
(* The singletons (utils/singleton.py, ErrorHandler.__new__).  A call      *)
(* returns inst, the instances it leaves, obj, the object it returns, and  *)
(* the state that object holds.                                            *)
(***************************************************************************)
Made(inst, cls) ==
    [inst EXCEPT ![cls] = inst.made[cls] + 1, !.made = [@ EXCEPT ![cls] = @ + 1]]

\* mutant of Singleton_call: every call makes an object
Singleton_call_fresh(inst, cfg) ==
    [inst |-> Made(inst, "ConfigManager"), obj |-> inst.made.ConfigManager + 1,
     cfg |-> EmptyDoc]

\* Singleton.__call__ for ConfigManager(); ConfigManager.__init__ gives the
\* new object an empty _config
Singleton_call(inst, cfg) ==
    IF inst.ConfigManager = NoInstance
    THEN [inst |-> Made(inst, "ConfigManager"), obj |-> inst.made.ConfigManager + 1,
          cfg |-> EmptyDoc]
    ELSE [inst |-> inst, obj |-> inst.ConfigManager, cfg |-> cfg]

\* ErrorHandler.__new__: the new object gets an empty registry and counters
ErrorHandler_new(inst, observers, counts) ==
    IF inst.ErrorHandler = NoInstance
    THEN [inst |-> Made(inst, "ErrorHandler"), obj |-> inst.made.ErrorHandler + 1,
          observers |-> NoObservers, counts |-> NoCounts]
    ELSE [inst |-> inst, obj |-> inst.ErrorHandler, observers |-> observers,
          counts |-> counts]

\* Singleton.clear_instance(cls): ErrorHandler is never in Singleton._instances
clear_instance(inst, cls) ==
    IF cls = "ConfigManager" /\ inst.ConfigManager # NoInstance
    THEN [inst EXCEPT !.ConfigManager = NoInstance]
    ELSE inst

\* Singleton.clear_all_instances()
clear_all_instances(inst) == [inst EXCEPT !.ConfigManager = NoInstance]

ConfigManagerCall ==
    LET r == Singleton_call(_instances, _config) IN
    /\ Running
    /\ r.inst.made.ConfigManager <= MaxInstances
    /\ _instances' = r.inst
    /\ _config' = r.cfg
    /\ last' = [op |-> "ConfigManager()", obj |-> r.obj]
    /\ UNCHANGED <<files, configFile, _error_counts, _observers, notified, exited, prompt, cmd>>

ErrorHandlerCall ==
    LET r == ErrorHandler_new(_instances, _observers, _error_counts) IN
    /\ Running
    /\ _instances' = r.inst
    /\ _observers' = r.observers
    /\ _error_counts' = r.counts
    /\ last' = [op |-> "ErrorHandler()", obj |-> r.obj]
    /\ UNCHANGED <<files, configFile, _config, notified, exited, prompt, cmd>>

ClearInstance ==
    \E cls \in {"ConfigManager", "ErrorHandler"} :
        /\ Running
        /\ _instances' = clear_instance(_instances, cls)
        /\ last' = [op |-> "clear_instance", cls |-> cls]
        /\ UNCHANGED <<files, configFile, _config, _error_counts, _observers, notified,
                       exited, prompt, cmd>>

ClearAllInstances ==
    /\ Running
    /\ _instances' = clear_all_instances(_instances)
    /\ last' = [op |-> "clear_all_instances"]
    /\ UNCHANGED <<files, configFile, _config, _error_counts, _observers, notified,
                   exited, prompt, cmd>>

\* methods called on the instances the process holds
OnConfigManager == _instances.ConfigManager # NoInstance /\ GetDefaultProfile
OnErrorHandlerRegister == _instances.ErrorHandler # NoInstance /\ Register
OnErrorHandlerHandle == _instances.ErrorHandler # NoInstance /\ Handle

NextSingleton ==
    \/ ConfigManagerCall
    \/ ErrorHandlerCall
    \/ ClearInstance
    \/ ClearAllInstances
    \/ OnConfigManager
    \/ OnErrorHandlerRegister
    \/ OnErrorHandlerHandle
    \/ Restart

SpecSingleton == InitHandler /\ [][NextSingleton]_vars

(***************************************************************************)
(* Claims about the singletons                                             *)
(***************************************************************************)
\* C23 as stated: within one process there is exactly one store instance and
\* exactly one error handler instance: after any sequence of operations,
\* every ConfigManager() call returns the same object holding the same global
\* config, and every ErrorHandler() call returns the same object with the
\* same subscriber registry and counters.
C23_OneInstance ==
    [][ /\ (last'.op = "ConfigManager()" /\ _instances.made.ConfigManager > 0) =>
              /\ last'.obj = 1
              /\ _config' = _config
        /\ (last'.op = "ErrorHandler()" /\ _instances.made.ErrorHandler > 0) =>
              /\ last'.obj = 1
              /\ UNCHANGED <<_observers, _error_counts>>
      ]_vars

\* C23 amended: within one process there is exactly one error handler
\* instance, and one store instance for as long as neither
\* Singleton.clear_instance(ConfigManager) nor Singleton.clear_all_instances()
\* is called: every ErrorHandler() call after the first returns the first
\* object with its subscriber registry and counters as they are; every
\* ConfigManager() call returns the object the registry holds, with its global
\* config as it is, and when the registry holds none (the first call, or the
\* first after a clear) it makes a new store whose global config is empty.
\* The clear operations leave the error handler and every state alone.
C23_OneInstanceUntilCleared ==
    [][ /\ last'.op = "ConfigManager()" =>
              IF _instances.ConfigManager # NoInstance
              THEN /\ last'.obj = _instances.ConfigManager
                   /\ UNCHANGED <<_config, _instances>>
              ELSE /\ last'.obj = _instances.made.ConfigManager + 1
                   /\ _instances'.ConfigManager = last'.obj
                   /\ _config' = EmptyDoc
        /\ last'.op = "ErrorHandler()" =>
              /\ last'.obj = 1
              /\ _instances'.ErrorHandler = 1
              /\ _instances.made.ErrorHandler > 0 =>
                    UNCHANGED <<_observers, _error_counts, _instances>>
        /\ last'.op \in {"clear_instance", "clear_all_instances"} =>
              /\ _instances'.ErrorHandler = _instances.ErrorHandler
              /\ _instances'.made = _instances.made
              /\ UNCHANGED <<_config, _observers, _error_counts>>
        /\ _instances'.made.ErrorHandler <= 1
      ]_vars

C23_Witness ==
    /\ last.op = "ConfigManager()"
    /\ last.obj = 1
    /\ _instances.made.ConfigManager = 1
    /\ _config # EmptyDoc
    /\ _instances.ErrorHandler = 1
    /\ _observers["ERROR"] # <<>>

(***************************************************************************)
(* The add-on commands (core/commands/addon_commands.py), run where        *)
(* is_interactive() is false, so that every prompt returns without reading *)
(* input.  The names and the add-on lists in the documents are strings and *)
(* lists of strings.                                                       *)
(***************************************************************************)
AVAILABLE_ADDONS ==
    [id \in {"schema-registry", "kafka-connect", "ksqldb", "kafka-ui", "prometheus", "grafana"} |->
        CASE id = "schema-registry" ->
                [name |-> "Schema Registry", default_port |-> "8081",
                 machine_type |-> "e2-small", disk_size_gb |-> "10"]
          [] id = "kafka-connect" ->
                [name |-> "Kafka Connect", default_port |-> "8083",
                 machine_type |-> "e2-medium", disk_size_gb |-> "20"]
          [] id = "ksqldb" ->
                [name |-> "ksqlDB", default_port |-> "8088",
                 machine_type |-> "e2-medium", disk_size_gb |-> "20"]
          [] id = "kafka-ui" ->
                [name |-> "Kafka UI", default_port |-> "8080",
                 machine_type |-> "e2-small", disk_size_gb |-> "10"]
          [] id = "prometheus" ->
                [name |-> "Prometheus", default_port |-> "9090",
                 machine_type |-> "e2-small", disk_size_gb |-> "20"]
          [] id = "grafana" ->
                [name |-> "Grafana", default_port |-> "3000",
                 machine_type |-> "e2-small", disk_size_gb |-> "10"]]

\* [addon["id"] for addon in list_available_addons()], in the order of the dict
available_ids ==
    <<"schema-registry", "kafka-connect", "ksqldb", "kafka-ui", "prometheus", "grafana">>

\* the strings of a list leaf, and the text of a list of strings
RECURSIVE words(_)
words(text) ==
    LET blanks == {i \in 1..Len(text) : SubSeq(text, i, i) = " "} IN
    IF text = "" THEN <<>>
    ELSE IF blanks = {} THEN <<text>>
    ELSE LET i == CHOOSE i \in blanks : \A j \in blanks : i <= j IN
         <<SubSeq(text, 1, i - 1)>> \o words(SubSeq(text, i + 1, Len(text)))

RECURSIVE unwords(_)
unwords(list) ==
    IF list = <<>> THEN ""
    ELSE IF Len(list) = 1 THEN list[1]
    ELSE list[1] \o " " \o unwords(Tail(list))

\* addon_id.replace('-', '_')
RECURSIVE replace_dash(_)
replace_dash(text) ==
    IF text = "" THEN ""
    ELSE (IF SubSeq(text, 1, 1) = "-" THEN "_" ELSE SubSeq(text, 1, 1))
            \o replace_dash(SubSeq(text, 2, Len(text)))

config_key(addon_id) == "addon_" \o replace_dash(addon_id)

\* f"{addon_id} - {metadata['name']}" and selected.split(" - ")[0]
addon_choice(addon_id) == addon_id \o " - " \o AVAILABLE_ADDONS[addon_id].name
split_first(selected) ==
    LET at == {i \in 1..(Len(selected) - 2) : SubSeq(selected, i, i + 2) = " - "} IN
    IF at = {} THEN selected
    ELSE SubSeq(selected, 1, (CHOOSE i \in at : \A j \in at : i <= j) - 1)

\* the choices of the add-ons that have metadata
addon_choices(ids) ==
    [i \in 1..Len(SelectSeq(ids, LAMBDA id : id \in DOMAIN AVAILABLE_ADDONS)) |->
        addon_choice(SelectSeq(ids, LAMBDA id : id \in DOMAIN AVAILABLE_ADDONS)[i])]

dict_set(doc, k, v) == [x \in DOMAIN doc \cup {k} |-> IF x = k THEN v ELSE doc[x]]
dict_del(doc, k) == [x \in DOMAIN doc \ {k} |-> doc[x]]

\* profile_data.get("profile", {}).get("name", "unknown"): the name, or an
\* AttributeError when "profile" is no dict
doc_profile_name(doc) ==
    IF "profile" \notin DOMAIN doc THEN [raises |-> FALSE, name |-> PyStr("unknown")]
    ELSE IF doc["profile"].t # "dict" THEN [raises |-> TRUE, name |-> PyNone]
    ELSE IF "name" \notin DOMAIN doc["profile"].d
    THEN [raises |-> FALSE, name |-> PyStr("unknown")]
    ELSE IF doc["profile"].d["name"].t = "none" THEN [raises |-> FALSE, name |-> PyNone]
    ELSE [raises |-> FALSE, name |-> PyStr(doc["profile"].d["name"].s)]

\* get_installed_addons
get_installed_addons(doc) ==
    IF "addons" \notin DOMAIN doc THEN [raises |-> FALSE, ids |-> <<>>]
    ELSE IF doc["addons"].t # "dict" THEN [raises |-> TRUE, ids |-> <<>>]
    ELSE IF "enabled" \notin DOMAIN doc["addons"].d THEN [raises |-> FALSE, ids |-> <<>>]
    ELSE IF doc["addons"].d["enabled"].t # "list" THEN [raises |-> FALSE, ids |-> <<>>]
    ELSE [raises |-> FALSE, ids |-> words(doc["addons"].d["enabled"].s)]

\* the add-on's section made from its metadata
addon_section(addon_id) ==
    PyDict([j \in {"enabled", "machine_type", "disk_size_gb", "port"} |->
        CASE j = "enabled" -> Leaf("bool", "true")
          [] j = "machine_type" -> Leaf("str", AVAILABLE_ADDONS[addon_id].machine_type)
          [] j = "disk_size_gb" -> Leaf("int", AVAILABLE_ADDONS[addon_id].disk_size_gb)
          [] j = "port" -> Leaf("int", AVAILABLE_ADDONS[addon_id].default_port)])

\* add_addon_to_profile, called with a valid add-on that is not installed and
\* a document whose "addons" is a dict or missing; an "enabled" that is no
\* list has no append
add_addon_to_profile(doc, addon_id) ==
    LET enabled == IF "addons" \in DOMAIN doc /\ "enabled" \in DOMAIN doc["addons"].d
                   THEN doc["addons"].d["enabled"] ELSE Leaf("list", "")
        addons == IF "addons" \in DOMAIN doc THEN doc["addons"].d ELSE NoEntries
    IN  IF enabled.t # "list" THEN [raises |-> TRUE, doc |-> doc]
        ELSE [raises |-> FALSE,
              doc |-> dict_set(dict_set(doc, "addons",
                                        PyDict(dict_set(addons, "enabled",
                                            Leaf("list", unwords(Append(words(enabled.s), addon_id)))))),
                               config_key(addon_id), addon_section(addon_id))]

\* remove_addon_from_profile, called with an installed add-on
remove_addon_from_profile(doc, addon_id) ==
    LET enabled == doc["addons"].d["enabled"] IN
    dict_del(dict_set(doc, "addons",
                      PyDict(dict_set(doc["addons"].d, "enabled",
                          Leaf("list", unwords(list_remove(words(enabled.s), addon_id)))))),
             config_key(addon_id))

\* what execute leaves: the result, the profile files, the config in memory,
\* errs, the ConfigurationErrors load_profile and save_profile passed to the
\* handler, and exc, the exception "except Exception" passed to
\* handle_exception (or NoError)
AddonDone(result, fs, cfg, errs, exc) ==
    [result |-> result, fs |-> fs, cfg |-> cfg, errs |-> errs, exc |-> exc]

AttributeError == [kind |-> "AttributeError"]

\* "if not profile_data": ConfigManager has no get_active_profile_name, which
\* is called when profile_name is None
addon_not_found(l, fs, profile_name) ==
    IF profile_name.t = "str" /\ profile_name.s # ""
    THEN AddonDone(error("Profile not found"), fs, l.cfg, l.errs, NoError)
    ELSE AddonDone(error("no attribute get_active_profile_name"), fs, l.cfg, l.errs,
                   AttributeError)

\* "if self.save_profile(updated_profile, profile_name)", once it has returned s
addon_saved(s, errs, value) ==
    IF s.ret THEN AddonDone(ok(value), s.fs, s.cfg, errs + s.errs, NoError)
    ELSE AddonDone(error("Failed to save profile"), s.fs, s.cfg, errs + s.errs, NoError)

\* InstallAddonCommand.execute from "Validate the add-on ID"; Prompt.confirm
\* returns its default, False
install_chosen(doc, fs, cfg, cf, errs, name, installed, addon_id, ioOk) ==
    IF addon_id \notin DOMAIN AVAILABLE_ADDONS
    THEN AddonDone(error("Invalid add-on ID"), fs, cfg, errs, NoError)
    ELSE IF InList(installed, addon_id)
    THEN AddonDone(error("Add-on already installed"), fs, cfg, errs, NoError)
    ELSE IF add_addon_to_profile(doc, addon_id).raises
    THEN AddonDone(error("no attribute append"), fs, cfg, errs, AttributeError)
    ELSE addon_saved(save_profile(fs, cfg, cf, add_addon_to_profile(doc, addon_id).doc, name,
                                  ioOk),
                     errs, VBool(TRUE))

\* Prompt.select("Select an add-on to install", choices=addon_choices):
\* without choices it raises CommandError, else it returns the first choice
install_loaded(doc, fs, cfg, cf, errs, name, installed, addon_id, ioOk) ==
    LET uninstalled == SelectSeq(available_ids, LAMBDA id : ~InList(installed, id)) IN
    IF addon_id # ""
    THEN install_chosen(doc, fs, cfg, cf, errs, name, installed, addon_id, ioOk)
    ELSE IF uninstalled = <<>>
    THEN AddonDone(error("All add-ons already installed"), fs, cfg, errs, NoError)
    ELSE install_chosen(doc, fs, cfg, cf, errs, name, installed,
                        split_first(select_begin([BaseKw EXCEPT !.choices =
                                                     addon_choices(uninstalled)],
                                                 FALSE).value.s),
                        ioOk)

\* the three commands up to "Get installed add-ons"; addon_id "" stands for None
addon_loaded(command, l, fs, cf, addon_id, profile_name, force, ioOk) ==
    IF l.out.isNone \/ DOMAIN l.out.doc = {} THEN addon_not_found(l, fs, profile_name)
    ELSE IF doc_profile_name(l.out.doc).raises \/ get_installed_addons(l.out.doc).raises
    THEN AddonDone(error("no attribute get"), fs, l.cfg, l.errs, AttributeError)
    ELSE [command |-> command, doc |-> l.out.doc, fs |-> fs, cfg |-> l.cfg, cf |-> cf,
          errs |-> l.errs, name |-> doc_profile_name(l.out.doc).name,
          installed |-> get_installed_addons(l.out.doc).ids, addon_id |-> addon_id,
          force |-> force, ioOk |-> ioOk]

\* an installed add-on without metadata: addon_metadata['name'] on None
TypeError == [kind |-> "TypeError"]

\* UninstallAddonCommand.execute from "Validate the add-on ID"; without force,
\* Prompt.confirm returns its default, False
uninstall_chosen(c, addon_id) ==
    IF ~InList(c.installed, addon_id)
    THEN AddonDone(error("Add-on not installed"), c.fs, c.cfg, c.errs, NoError)
    ELSE IF addon_id \notin DOMAIN AVAILABLE_ADDONS
    THEN AddonDone(error("NoneType is not subscriptable"), c.fs, c.cfg, c.errs, TypeError)
    ELSE IF ~c.force
    THEN AddonDone(error("Uninstallation cancelled by user"), c.fs, c.cfg, c.errs, NoError)
    ELSE addon_saved(save_profile(c.fs, c.cfg, c.cf, remove_addon_from_profile(c.doc, addon_id),
                                  c.name, c.ioOk),
                     c.errs, VBool(TRUE))

\* the value a prompt returns where is_interactive() is false, given a default
\* that is a leaf of the document: Prompt.text ends with typer.Exit(1) when
\* the default is None, Prompt.number returns min_value then
text_default(leaf) == IF leaf.t = "none" THEN [raises |-> TRUE, leaf |-> leaf]
                      ELSE [raises |-> FALSE, leaf |-> leaf]
number_default(leaf, min_value) == IF leaf.t = "none" THEN Leaf("int", min_value) ELSE leaf

leaf_truthy(leaf) ==
    CASE leaf.t = "none" -> FALSE
      [] leaf.t = "bool" -> leaf.s = "true"
      [] leaf.t = "int" -> leaf.s # "0"
      [] OTHER -> leaf.s # ""

leaf_get(section, key, default) == IF key \in DOMAIN section THEN section[key] ELSE default

\* ConfigureAddonCommand.execute, "Update configuration interactively": the
\* section after the prompts
configure_section(section, addon_id) ==
    LET meta == AVAILABLE_ADDONS[addon_id]
        enabled == leaf_get(section, "enabled", Leaf("bool", "true"))
        s1 == dict_set(section, "enabled", enabled)
        s2 == dict_set(s1, "machine_type",
                       leaf_get(section, "machine_type", Leaf("str", meta.machine_type)))
        s3 == dict_set(s2, "disk_size_gb",
                       number_default(leaf_get(section, "disk_size_gb",
                                               Leaf("int", meta.disk_size_gb)), "1"))
        s4 == dict_set(s3, "port",
                       number_default(leaf_get(section, "port", Leaf("int", meta.default_port)),
                                      "1024"))
        s5 == IF addon_id = "kafka-connect"
              THEN dict_set(s4, "plugins", leaf_get(section, "plugins", Leaf("str", "")))
              ELSE IF addon_id = "schema-registry"
              THEN dict_set(s4, "compatibility",
                            leaf_get(section, "compatibility", Leaf("str", "BACKWARD")))
              ELSE s4
    IN  IF ~leaf_truthy(enabled) THEN [raises |-> FALSE, section |-> s1]
        ELSE IF text_default(leaf_get(section, "machine_type",
                                      Leaf("str", meta.machine_type))).raises
        THEN [raises |-> TRUE, section |-> s1]
        ELSE IF addon_id = "kafka-connect"
                /\ text_default(leaf_get(section, "plugins", Leaf("str", ""))).raises
        THEN [raises |-> TRUE, section |-> s4]
        ELSE [raises |-> FALSE, section |-> s5]

\* ConfigureAddonCommand.execute from "Validate the add-on ID"; the value of
\* the result stands for the section of that key
configure_chosen(c, addon_id) ==
    IF ~InList(c.installed, addon_id)
    THEN AddonDone(error("Add-on not installed"), c.fs, c.cfg, c.errs, NoError)
    ELSE IF addon_id \notin DOMAIN AVAILABLE_ADDONS
    THEN AddonDone(error("NoneType has no attribute get"), c.fs, c.cfg, c.errs, AttributeError)
    ELSE IF config_key(addon_id) \in DOMAIN c.doc /\ c.doc[config_key(addon_id)].t # "dict"
    THEN AddonDone(error("no attribute items"), c.fs, c.cfg, c.errs, AttributeError)
    ELSE IF configure_section(leaf_get(c.doc, config_key(addon_id), addon_section(addon_id)).d,
                              addon_id).raises
    THEN AddonDone(error(""), c.fs, c.cfg, c.errs, [kind |-> "Exit"])
    ELSE addon_saved(save_profile(c.fs, c.cfg, c.cf,
                        dict_set(c.doc, config_key(addon_id),
                            PyDict(configure_section(
                                leaf_get(c.doc, config_key(addon_id), addon_section(addon_id)).d,
                                addon_id).section)),
                        c.name, c.ioOk),
                     c.errs, VStr(config_key(addon_id)))

\* Prompt.select over the installed add-ons that have metadata: without
\* choices it raises CommandError, else it returns the first choice
addon_selected(c) ==
    IF c.addon_id # "" THEN [raises |-> FALSE, addon_id |-> c.addon_id]
    ELSE IF addon_choices(c.installed) = <<>> THEN [raises |-> TRUE, addon_id |-> ""]
    ELSE [raises |-> FALSE,
          addon_id |-> split_first(select_begin([BaseKw EXCEPT !.choices =
                                                    addon_choices(c.installed)],
                                                FALSE).value.s)]

\* the rest of execute, once the profile is loaded
addon_continue(c) ==
    IF "result" \in DOMAIN c THEN c
    ELSE IF c.command = "install_addon"
    THEN install_loaded(c.doc, c.fs, c.cfg, c.cf, c.errs, c.name, c.installed, c.addon_id, c.ioOk)
    ELSE IF c.installed = <<>>
    THEN AddonDone(error("No add-ons installed"), c.fs, c.cfg, c.errs, NoError)
    ELSE IF addon_selected(c).raises
    THEN AddonDone(error("No choices provided"), c.fs, c.cfg, c.errs, CommandError)
    ELSE IF c.command = "uninstall_addon" THEN uninstall_chosen(c, addon_selected(c).addon_id)
    ELSE configure_chosen(c, addon_selected(c).addon_id)

\* execute(addon_id, profile_name, force) of the three commands
addon_execute(command, fs, cfg, cf, addon_id, profile_name, force, ioOk) ==
    addon_continue(addon_loaded(command, load_profile(fs, cfg, cf, profile_name), fs, cf,
                                addon_id, profile_name, force, ioOk))

\* the profile name execute resolves: the one given, or the default profile
\* (PyNone: there is none)
resolved_profile(cfg, cf, profile_name) ==
    IF profile_name.t = "none" THEN get_default_profile(cfg, cf).val ELSE profile_name

\* the add-ons enabled in a profile file
enabled_count(file) ==
    IF file.kind = "block" /\ "addons" \in DOMAIN file.body
          /\ "enabled" \in DOMAIN file.body["addons"].sub
    THEN Len(words(file.body["addons"].sub["enabled"].text))
    ELSE 0

AddonStep(r, command, addon_id, profile_name, force, ioOk) ==
    /\ Running
    /\ Sum(_error_counts) < MaxHandled
    /\ \A n \in DOMAIN files : enabled_count(r.fs[n]) <= MaxAddons
    /\ files' = r.fs
    /\ _config' = r.cfg
    /\ _error_counts' =
          IF r.exc = NoError THEN handle_n(_error_counts, ConfigurationError, r.errs)
          ELSE handle_counts(handle_n(_error_counts, ConfigurationError, r.errs),
                             handle_exception(r.exc))
    /\ notified' = IF r.exc # NoError THEN handle_notify(_observers, handle_exception(r.exc))
                   ELSE IF r.errs > 0 THEN handle_notify(_observers, ConfigurationError)
                   ELSE notified
    /\ exited' = IF r.exc # NoError THEN handle_exit(handle_exception(r.exc)) ELSE exited
    /\ last' = [op |-> command, addon_id |-> addon_id, profile_name |-> profile_name,
                force |-> force, ioOk |-> ioOk,
                resolved |-> resolved_profile(_config, configFile, profile_name),
                result |-> r.result]
    /\ UNCHANGED <<_instances, configFile, _observers, prompt, cmd>>

AddonIds == {"", "ksqldb", "nope"}

InstallAddon ==
    \E addon_id \in AddonIds, profile_name \in NameArgs, ioOk \in BOOLEAN :
        AddonStep(addon_execute("install_addon", files, _config, configFile, addon_id,
                                profile_name, FALSE, ioOk),
                  "install_addon", addon_id, profile_name, FALSE, ioOk)

UninstallAddon ==
    \E addon_id \in AddonIds, profile_name \in NameArgs, force \in BOOLEAN, ioOk \in BOOLEAN :
        AddonStep(addon_execute("uninstall_addon", files, _config, configFile, addon_id,
                                profile_name, force, ioOk),
                  "uninstall_addon", addon_id, profile_name, force, ioOk)

ConfigureAddon ==
    \E addon_id \in AddonIds, profile_name \in NameArgs, ioOk \in BOOLEAN :
        AddonStep(addon_execute("configure_addon", files, _config, configFile, addon_id,
                                profile_name, FALSE, ioOk),
                  "configure_addon", addon_id, profile_name, FALSE, ioOk)

\* profiles whose document names the profile itself, names another profile,
\* or names none; "unknown" is the name the commands use for a document
\* without profile.name
AddonDocs ==
    [self |-> [k \in {"profile"} |-> PyDict([j \in {"name"} |-> Leaf("str", "a")])],
     other |-> [k \in {"profile", "addons"} |->
                  IF k = "profile" THEN PyDict([j \in {"name"} |-> Leaf("str", "b")])
                  ELSE PyDict([j \in {"enabled"} |-> Leaf("list", "ksqldb")])],
     nameless |-> [k \in {"addons"} |-> PyDict([j \in {"enabled"} |-> Leaf("list", "")])]]

InitAddon ==
    /\ files \in {[n \in {"a", "b", "unknown"} |-> IF n = "a" THEN yaml_dump(doc) ELSE Absent] :
                  doc \in {AddonDocs.self, AddonDocs.other, AddonDocs.nameless}}
    /\ configFile \in {yaml_dump(DefaultConfig),
                       yaml_dump(dict_set(DefaultConfig, "default_profile", PyStr("a")))}
    /\ _config = EmptyDoc
    /\ _error_counts = NoCounts
    /\ _observers = NoObservers
    /\ notified = <<>>
    /\ exited = NoExit
    /\ prompt = NoPrompt
    /\ cmd = NoCommand
    /\ last = [op |-> "init"]
    /\ _instances = NoInstances

NextAddon ==
    \/ InstallAddon
    \/ UninstallAddon
    \/ ConfigureAddon
    \/ Restart

SpecAddon == InitAddon /\ [][NextAddon]_vars

\* C29 as stated: the install, uninstall and configure add-on commands
\* overwrite only the profile they read: when execute resolves profile name P
\* (explicit or the default) and loads its document, the only profile created
\* or modified by that execute is P, whatever the document holds.
C29_AddonWritesOnlyP ==
    [][ last'.op \in {"install_addon", "uninstall_addon", "configure_addon"} =>
          \A n \in DOMAIN files :
             PyStr(n) # last'.resolved => files'[n] = files[n]
      ]_vars

====
